---- MODULE Spec2Model ----
(***************************************************************************)
(* narou-py: the Aozora text transducer of                                 *)
(* narou_py/aozora/text_converter_mixin.py (AozoraTextConverterMixin).     *)
(*                                                                         *)
(* A text is a sequence of characters.  A character is a string token:     *)
(* a printable ASCII character stands for itself, the full-width form of   *)
(* the ASCII character c (U+FF01..U+FF5E) is "Z" \o c, the kanji digits    *)
(* are K0..K9, and every other character has a name (see below).  The      *)
(* multi-character words inside Aozora annotations are one token each      *)
(* ("@tcy" is the three characters of "tate-chu-yoko").                    *)
(***************************************************************************)
EXTENDS Integers, Sequences, FiniteSets, TLC

VARIABLES
    pc,                 \* per call: the statement the call is about to run
    text_type,          \* per call: the text_type argument
    value,              \* per call: the value argument (of a long one, its last lines)
    earlier,            \* per call: the spans stashed from the lines of value before them
    text,               \* per call: the local variable text
    urls,               \* per frame: the list urls returned by _stash_urls
    english_sentences,  \* per frame: the list english_sentences
    num_and_comma,      \* per frame: the list num_and_comma of _convert_numbers
    ran,                \* per call: the statements the call has run
    raised,             \* per call: an exception has escaped a stage
    returned,           \* per call: the strings the calls with these arguments returned
    lines,              \* _pack_blank_lines run on its own: text.split('\n')
    line_no,            \* ... the number of lines the for loop has consumed
    packed,             \* ... the list packed
    blank_run,          \* ... the counter blank_run
    prev_border,        \* ... the flag prev_border
    previous,           \* _delete_tag: its local previous
    web,                \* what the novel site serves: its pages and its sections
    disk,               \* the *.json files of the section directory, by file name
    dl_pc,              \* PyNarouDownloader.download: the statement it is about to run
    subtitles,          \* ... novel.subtitles, as returned by fetch_novel
    existing_indexes,   \* ... the set existing_indexes
    subtitle_no,        \* ... the number of subtitles the for loop has consumed
    downloaded,         \* ... the counter downloaded
    skipped,            \* ... the counter skipped
    requests,           \* the section requests of every download so far, per call
    disk_at_call,       \* the section directory as the running download found it
    skip_existing,      \* ... its argument skip_existing
    argv,               \* cli.main: the arguments of the command line
    cli_pc,             \* ... the statement main is about to run
    exporters,          \* ... the exporter classes it has constructed, in order
    printed,            \* ... what it has passed to print, in order
    caught,             \* ... the exception its except clause holds
    outcome,            \* ... how main ended: the value returned or the exception raised
    host,               \* the machine of the exporter: its programs and what the converter does
    out_dir,            \* the *.epub and *.txt files beside the output path, with their mtime
    export_pc,          \* AozoraEpubExporter.export: the statement it is about to run
    output_path,        \* ... its argument output_path
    subprocess_runs,    \* ... the commands passed to subprocess.run, in order
    export_outcome      \* ... how export ended

Args == <<text_type, value, earlier>>
Locals == <<urls, english_sentences, num_and_comma>>
PackLocals == <<lines, line_no, packed, blank_run, prev_border>>
Downloader == <<web, disk, dl_pc, subtitles, existing_indexes, subtitle_no,
                downloaded, skipped, requests, disk_at_call, skip_existing>>
Cli == <<argv, cli_pc, exporters, printed, caught, outcome>>
Exporter == <<host, out_dir, export_pc, output_path, subprocess_runs, export_outcome>>
Outside == <<Downloader, Cli, Exporter>>
vars == <<pc, Args, text, Locals, ran, raised, returned, PackLocals, previous, Outside>>

\* No download is going on: there is no site and the section directory is empty.
DownloaderIdle ==
    /\ web = [site |-> "none", pages |-> <<>>, pager |-> 0, sections |-> <<>>]
    /\ disk = <<>>
    /\ dl_pc = "idle"
    /\ subtitles = <<>>
    /\ existing_indexes = {}
    /\ subtitle_no = 0
    /\ downloaded = 0
    /\ skipped = 0
    /\ requests = <<>>
    /\ disk_at_call = <<>>
    /\ skip_existing = TRUE

Running == [kind |-> "running", value |-> "None"]

\* main is not running
CliIdle ==
    /\ argv = [target |-> "None", aozora |-> "None", no_aozora |-> FALSE,
               no_skip_existing |-> FALSE]
    /\ cli_pc = "idle"
    /\ exporters = <<>>
    /\ printed = <<>>
    /\ caught = "None"
    /\ outcome = Running

\* No export is going on
ExporterIdle ==
    /\ host = [toc |-> FALSE, java |-> FALSE, jar |-> FALSE, rs_binary |-> FALSE,
               returncode |-> 0, writes |-> "None"]
    /\ out_dir = <<>>
    /\ export_pc = "idle"
    /\ output_path = "None"
    /\ subprocess_runs = <<>>
    /\ export_outcome = Running

OutsideIdle == DownloaderIdle /\ CliIdle /\ ExporterIdle

----------------------------------------------------------------------------
(* Characters *)

NL == "NL"              \* '\n'
CR == "CR"              \* '\r'
TAB == "TAB"            \* '\t'
SP == " "
DQ == "DQ"              \* '"'
BSL == "BSL"            \* '\'
ZSP == "ZSP"            \* U+3000, the full-width space
TOUTEN == "TOUTEN"      \* 、
KUTEN == "KUTEN"        \* 。
NAKATEN == "NAKATEN"    \* ・
LEADER3 == "LEADER3"    \* … (U+2026)
LEADER2 == "LEADER2"    \* ‥ (U+2025)
DASH == "DASH"          \* ― (U+2015)
EMDASH == "EMDASH"      \* — (U+2014)
MINUS == "MINUS"        \* − (U+2212)
HYPHEN == "HYPHEN"      \* ‐ (U+2010)
LRUBY == "LRUBY"        \* 《
RRUBY == "RRUBY"        \* 》
LDANGLE == "LDANGLE"    \* ≪
RDANGLE == "RDANGLE"    \* ≫
LKAGI == "LKAGI"        \* 「
RKAGI == "RKAGI"        \* 」
LWKAGI == "LWKAGI"      \* 『
RWKAGI == "RWKAGI"      \* 』
LSUMI == "LSUMI"        \* 【
RSUMI == "RSUMI"        \* 】
LKIKKO == "LKIKKO"      \* 〔
RKIKKO == "RKIKKO"      \* 〕
LANGLE == "LANGLE"      \* 〈
RANGLE == "RANGLE"      \* 〉
LDPRIME == "LDPRIME"    \* 〝
RDPRIME == "RDPRIME"    \* 〟
LSQ == "LSQ"            \* ‘
RSQ == "RSQ"            \* ’
LDQ == "LDQ"            \* “
RDQ == "RDQ"            \* ”
KOME == "KOME"          \* ※
YEN == "YEN"            \* ￥
NOTE == "NOTE"          \* ♪
J1 == "j1"              \* an ordinary Japanese character (あ)
J2 == "j2"              \* another one (い)
ARABIC3 == "AR3"        \* U+0663, a decimal digit of another script

\* The full-width form of an ASCII character (U+FF01..U+FF5E).
Zen(c) == "Z" \o c

Lowercase == <<"a","b","c","d","e","f","g","h","i","j","k","l","m",
               "n","o","p","q","r","s","t","u","v","w","x","y","z">>
Uppercase == <<"A","B","C","D","E","F","G","H","I","J","K","L","M",
               "N","O","P","Q","R","S","T","U","V","W","X","Y","Z">>
HankakuNum == <<"0","1","2","3","4","5","6","7","8","9">>

\* The printable ASCII characters U+0021..U+007E, in order ("GRAVE": U+0060).
Printable ==
    <<"!", DQ, "#", "$", "%", "&", "'", "(", ")", "*", "+", ",", "-", ".", "/">>
        \o HankakuNum \o <<":", ";", "<", "=", ">", "?", "@">> \o Uppercase
        \o <<"[", BSL, "]", "^", "_", "GRAVE">> \o Lowercase \o <<"{", "|", "}", "~">>

\* chr(n) for a code point n from U+E000 on: a full-width form (U+FF01..U+FF5E),
\* the full-width yen sign (U+FFE5), or a character no stage knows.
Chr(n) ==
    IF 65281 <= n /\ n <= 65374 THEN Zen(Printable[n - 65280])
    ELSE IF n = 65509 THEN YEN
    ELSE "U+" \o ToString(n)

\* chr(n) raises ValueError: n is not in range(0x110000).
ChrRaises(n) == n > 1114111

Range(s) == {s[i] : i \in 1..Len(s)}
AsciiLetters == Range(Lowercase) \cup Range(Uppercase)
AsciiDigits == Range(HankakuNum)

\* The index of character c in the string s (0 when absent): str.find + 1.
IndexOf(s, c) == IF c \in Range(s) THEN CHOOSE i \in 1..Len(s) : s[i] = c ELSE 0

\* str.translate with the table str.maketrans(from, to).
Translate1(c, from, to) == IF c \in Range(from) THEN to[IndexOf(from, c)] ELSE c
Translate(s, from, to) == [i \in 1..Len(s) |-> Translate1(s[i], from, to)]

\* re.IGNORECASE on one character.
Lower(c) == Translate1(c, Uppercase, Lowercase)

----------------------------------------------------------------------------
(* Strings *)

Last(s) == s[Len(s)]

RECURSIVE Repeat(_, _)
\* s * n
Repeat(s, n) == IF n <= 0 THEN <<>> ELSE s \o Repeat(s, n - 1)

RECURSIVE Flatten(_)
\* ''.join(parts)
Flatten(parts) == IF parts = <<>> THEN <<>> ELSE Head(parts) \o Flatten(Tail(parts))

\* s[i:] starts with pat (i is 1-based).
StartsWithAt(s, i, pat) ==
    /\ i + Len(pat) - 1 <= Len(s)
    /\ \A k \in 1..Len(pat) : s[i + k - 1] = pat[k]

\* the same under re.IGNORECASE
StartsWithAtCI(s, i, pat) ==
    /\ i + Len(pat) - 1 <= Len(s)
    /\ \A k \in 1..Len(pat) : Lower(s[i + k - 1]) = Lower(pat[k])

RECURSIVE ReplaceFrom(_, _, _, _)
ReplaceFrom(s, i, old, new) ==
    IF i > Len(s) THEN <<>>
    ELSE IF StartsWithAt(s, i, old) THEN new \o ReplaceFrom(s, i + Len(old), old, new)
    ELSE <<s[i]>> \o ReplaceFrom(s, i + 1, old, new)

\* str.replace(old, new) for a non-empty old: leftmost, non-overlapping.
Replace(s, old, new) == ReplaceFrom(s, 1, old, new)

RECURSIVE ReplaceCIFrom(_, _, _, _)
ReplaceCIFrom(s, i, old, new) ==
    IF i > Len(s) THEN <<>>
    ELSE IF StartsWithAtCI(s, i, old) THEN new \o ReplaceCIFrom(s, i + Len(old), old, new)
    ELSE <<s[i]>> \o ReplaceCIFrom(s, i + 1, old, new)

\* re.sub(literal, new, s, flags=re.IGNORECASE)
ReplaceCI(s, old, new) == ReplaceCIFrom(s, 1, old, new)

RECURSIVE RStrip(_, _)
\* str.rstrip(chars)
RStrip(s, chars) ==
    IF s # <<>> /\ Last(s) \in chars THEN RStrip(SubSeq(s, 1, Len(s) - 1), chars) ELSE s

RECURSIVE LStrip(_, _)
\* str.lstrip(chars)
LStrip(s, chars) == IF s # <<>> /\ Head(s) \in chars THEN LStrip(Tail(s), chars) ELSE s

\* str.strip(chars)
Strip(s, chars) == LStrip(RStrip(s, chars), chars)

RECURSIVE SplitFrom(_, _, _)
SplitFrom(s, i, cur) ==
    IF i > Len(s) THEN <<cur>>
    ELSE IF s[i] = NL THEN <<cur>> \o SplitFrom(s, i + 1, <<>>)
    ELSE SplitFrom(s, i + 1, Append(cur, s[i]))

\* text.split('\n'): always at least one line
SplitLines(s) == SplitFrom(s, 1, <<>>)

RECURSIVE JoinLines(_)
\* '\n'.join(lines)
JoinLines(ls) ==
    IF ls = <<>> THEN <<>>
    ELSE IF Len(ls) = 1 THEN ls[1]
    ELSE ls[1] \o <<NL>> \o JoinLines(Tail(ls))

\* The length of the maximal run of characters of class cls that starts at i.
RECURSIVE RunLen(_, _, _)
RunLen(s, i, cls) == IF i <= Len(s) /\ s[i] \in cls THEN 1 + RunLen(s, i + 1, cls) ELSE 0

----------------------------------------------------------------------------
(* Layout normalizer: _normalize_border_line and _pack_blank_lines *)

BlankChars == {SP, ZSP, TAB}                              \* ' 　\t'
Stars == {"*", Zen("*")}
Decorations == {"DIA_B", "DIA_W", "SQ_B", "SQ_W", "CIR_B", "CIR_W", "STAR_B", "STAR_W"}
                                                          \* ◆◇■□●○★☆
None == [none |-> TRUE, value |-> <<>>]
Some(v) == [none |-> FALSE, value |-> v]

_normalize_border_line(line) ==
    LET stripped == Strip(line, BlankChars) IN
    IF stripped = <<>> THEN None
    ELSE IF Len(stripped) >= 5 /\ Range(stripped) \subseteq Stars
         THEN Some(Translate(stripped, <<"*">>, <<Zen("*")>>))
    ELSE IF Range(stripped) \subseteq Decorations THEN Some(stripped)
    ELSE None

\* append_blanks(count): both branches of its if append ''.
append_blanks(pk, count) == pk \o [i \in 1..count |-> <<>>]

PackStart == [packed |-> <<>>, blank_run |-> 0, prev_border |-> FALSE, raised |-> FALSE]

\* packed[-1] != '' as line 318 evaluates it: an IndexError when packed is empty.
LastNotEmpty(pk) == IF pk = <<>> THEN FALSE ELSE Last(pk) # <<>>

\* The two counts of lines 306 and 317 exchanged.
border_blanks_swapped(n) == IF n \in {1, 3} THEN 2 ELSE 1

\* Two blank lines around a border line whatever the run.
border_blanks_two(n) == 2

\* Lines 319-326 without the thresholds 4, 8 and 10.
run_blanks_one(n) == 1

\* 1 if blank_run in (1, 3) else 2   (lines 306 and 317)
border_blanks(n) == IF n \in {1, 3} THEN 1 ELSE 2

\* The appends of lines 319-326 for a run of n >= 2 blank lines.
run_blanks(n) ==
    1 + (IF n >= 4 THEN 1 ELSE 0) + (IF n >= 8 THEN 1 ELSE 0) + (IF n >= 10 THEN 1 ELSE 0)

\* Line 314 taken only for a run of two or more blank lines.
leading_run_long(st) == st.packed = <<>> /\ st.blank_run >= 2

\* The condition of line 314: not packed and blank_run >= 1
leading_run(st) == st.packed = <<>> /\ st.blank_run >= 1

\* One iteration of the loop of _pack_blank_lines (lines 300-328).
PackLine(st, line) ==
    IF st.raised THEN st
    ELSE IF Strip(line, BlankChars) = <<>> THEN [st EXCEPT !.blank_run = @ + 1]
    ELSE LET border == _normalize_border_line(line) IN
    IF ~border.none
    THEN LET sep == IF st.blank_run > 0
                    THEN append_blanks(st.packed, border_blanks(st.blank_run))
                    ELSE IF st.packed # <<>> /\ Last(st.packed) # <<>>
                         THEN Append(st.packed, <<>>)
                         ELSE st.packed
         IN [packed |-> Append(sep, Repeat(<<ZSP>>, 4) \o border.value),
             blank_run |-> 0, prev_border |-> TRUE, raised |-> FALSE]
    ELSE IF leading_run(st)
    THEN [packed |-> <<<<>>, RStrip(line, BlankChars)>>,
          blank_run |-> 0, prev_border |-> FALSE, raised |-> FALSE]
    ELSE IF st.prev_border /\ st.blank_run >= 1
    THEN [packed |-> Append(append_blanks(st.packed, border_blanks(st.blank_run)),
                            RStrip(line, BlankChars)),
          blank_run |-> 0, prev_border |-> FALSE, raised |-> FALSE]
    ELSE IF st.blank_run >= 2 /\ st.packed = <<>>
    THEN [st EXCEPT !.raised = TRUE]                      \* packed[-1] of an empty list
    ELSE IF st.blank_run >= 2 /\ LastNotEmpty(st.packed)
    THEN [packed |-> Append(append_blanks(st.packed, run_blanks(st.blank_run)),
                            RStrip(line, BlankChars)),
          blank_run |-> 0, prev_border |-> FALSE, raised |-> FALSE]
    ELSE [packed |-> Append(st.packed, RStrip(line, BlankChars)),
          blank_run |-> 0, prev_border |-> FALSE, raised |-> FALSE]

RECURSIVE PackLoop(_, _)
PackLoop(st, ls) ==
    IF ls = <<>> THEN st ELSE PackLoop(PackLine(st, Head(ls)), Tail(ls))

\* while packed and packed[-1] == '': packed.pop()   (lines 329-330)
PopBlanks(pk) == RStrip(pk, {<<>>})

\* The two line-join fixups (lines 332-333).
JoinFixups(result) ==
    Replace(Replace(result, <<NL, Zen("!"), RKAGI>>, <<Zen("!"), RKAGI>>),
            <<NL, Zen("?"), RKAGI>>, <<Zen("?"), RKAGI>>)

\* What lines 329-334 return when the loop has left the list pk.
PackReturnValue(pk) == JoinFixups(JoinLines(PopBlanks(pk)))

\* _pack_blank_lines as a whole: [raised, result].
PackResult(t) ==
    LET st == PackLoop(PackStart, SplitLines(t)) IN
    [raised |-> st.raised,
     result |-> IF st.raised THEN <<>> ELSE PackReturnValue(st.packed)]

_pack_blank_lines(t) == PackResult(t).result

----------------------------------------------------------------------------
(* Annotations *)

ZLB == Zen("[")         \* ［
ZRB == Zen("]")         \* ］
ZSHARP == Zen("#")      \* ＃
Annot(words) == <<ZLB, ZSHARP>> \o words \o <<ZRB>>
BoutenOpen == Annot(<<"@bouten">>)                        \* ［＃傍点］
BoutenClose == Annot(<<"@bouten", "@owari">>)             \* ［＃傍点終わり］
TcyOpen == Annot(<<"@tcy">>)                              \* ［＃縦中横］
TcyClose == Annot(<<"@tcy", "@owari">>)                   \* ［＃縦中横終わり］
tcy(v) == TcyOpen \o v \o TcyClose

----------------------------------------------------------------------------
(* HTML-fragment normalizer: _delete_tag and _html_to_aozora *)

\* The least j >= from with s[j] in cls, or 0.
FirstIn(s, from, cls) ==
    IF \E j \in from..Len(s) : s[j] \in cls
    THEN CHOOSE j \in from..Len(s) : s[j] \in cls /\ \A k \in from..(j - 1) : s[k] \notin cls
    ELSE 0

\* The least j >= from where pat occurs (re.IGNORECASE), or 0.
FindCI(s, from, pat) ==
    IF \E j \in from..Len(s) : StartsWithAtCI(s, j, pat)
    THEN CHOOSE j \in from..Len(s) :
            StartsWithAtCI(s, j, pat) /\ \A k \in from..(j - 1) : ~StartsWithAtCI(s, k, pat)
    ELSE 0

RECURSIVE DeleteTagPassNoGt(_, _)
\* The substitution with <[^>]+> for its pattern
DeleteTagPassNoGt(s, i) ==
    IF i > Len(s) THEN <<>>
    ELSE IF s[i] = "<" /\ i < Len(s) /\ s[i + 1] # ">" /\ FirstIn(s, i + 2, {">"}) # 0
         THEN DeleteTagPassNoGt(s, FirstIn(s, i + 2, {">"}) + 1)
    ELSE <<s[i]>> \o DeleteTagPassNoGt(s, i + 1)

RECURSIVE DeleteTagPass(_, _)
\* re.sub(r'<.+?>', '', text, flags=re.DOTALL), from position i
DeleteTagPass(s, i) ==
    IF i > Len(s) THEN <<>>
    ELSE IF s[i] = "<" /\ FirstIn(s, i + 2, {">"}) # 0
         THEN DeleteTagPass(s, FirstIn(s, i + 2, {">"}) + 1)
    ELSE <<s[i]>> \o DeleteTagPass(s, i + 1)

RECURSIVE _delete_tag(_)
_delete_tag(t) ==
    LET next == DeleteTagPass(t, 1) IN IF next = t THEN t ELSE _delete_tag(next)

\* re.sub(r'[\r\n]+', '', text)
DropNewlines(s) == SelectSeq(s, LAMBDA c : c \notin {CR, NL})

\* The position of the '>' that ends a match of  open.*?>  starting at i
\* ('.' does not match '\n'), or 0.
TagEnd(s, i, open) ==
    IF ~StartsWithAtCI(s, i, open) THEN 0
    ELSE LET g == FirstIn(s, i + Len(open), {">"}) IN
         IF g # 0 /\ \A k \in (i + Len(open))..(g - 1) : s[k] # NL THEN g ELSE 0

RECURSIVE BrLowerFrom(_, _)
\* The substitution of <br.*?> without re.IGNORECASE
BrLowerFrom(s, i) ==
    IF i > Len(s) THEN <<>>
    ELSE IF StartsWithAt(s, i, <<"<", "b", "r">>) /\ TagEnd(s, i, <<"<", "b", "r">>) # 0
         THEN <<NL>> \o BrLowerFrom(s, TagEnd(s, i, <<"<", "b", "r">>) + 1)
    ELSE <<s[i]>> \o BrLowerFrom(s, i + 1)

RECURSIVE BrFrom(_, _)
\* re.sub(r'<br.*?>', '\n', text, flags=re.IGNORECASE)
BrFrom(s, i) ==
    IF i > Len(s) THEN <<>>
    ELSE IF TagEnd(s, i, <<"<", "b", "r">>) # 0
         THEN <<NL>> \o BrFrom(s, TagEnd(s, i, <<"<", "b", "r">>) + 1)
    ELSE <<s[i]>> \o BrFrom(s, i + 1)

EndP == <<"<", "/", "p", ">">>

RECURSIVE EndPFrom(_, _)
\* re.sub(r'\n?</p>', '\n', text, flags=re.IGNORECASE)
EndPFrom(s, i) ==
    IF i > Len(s) THEN <<>>
    ELSE IF s[i] = NL /\ StartsWithAtCI(s, i + 1, EndP) THEN <<NL>> \o EndPFrom(s, i + 5)
    ELSE IF StartsWithAtCI(s, i, EndP) THEN <<NL>> \o EndPFrom(s, i + 4)
    ELSE <<s[i]>> \o EndPFrom(s, i + 1)

\* re.split(pat, s, maxsplit=1, flags=re.IGNORECASE)[0]
BeforeFirstCI(s, pat) ==
    IF FindCI(s, 1, pat) = 0 THEN s ELSE SubSeq(s, 1, FindCI(s, 1, pat) - 1)

\* ''.join of what follows the first match of pat; only used when pat occurs
AfterFirstCI(s, pat) == SubSeq(s, FindCI(s, 1, pat) + Len(pat), Len(s))

RubyRt == <<"<", "r", "t", ">">>
RubyRp == <<"<", "r", "p", ">">>
RubyOpen == <<"<", "r", "u", "b", "y", ">">>
RubyClose == <<"<", "/", "r", "u", "b", "y", ">">>

\* ruby_repl without lines 32-33: a reading of dots is a reading like any other.
ruby_repl_without_dots(ruby_inner) ==
    IF FindCI(ruby_inner, 1, RubyRt) = 0 THEN _delete_tag(ruby_inner)
    ELSE LET first == BeforeFirstCI(ruby_inner, RubyRt)
             second == BeforeFirstCI(AfterFirstCI(ruby_inner, RubyRt), RubyRt)
         IN <<Zen("|")>> \o _delete_tag(BeforeFirstCI(first, RubyRp)) \o <<LRUBY>>
                \o _delete_tag(BeforeFirstCI(second, RubyRp)) \o <<RRUBY>>

\* ruby_repl (lines 25-34) on match.group(1)
ruby_repl(ruby_inner) ==
    IF FindCI(ruby_inner, 1, RubyRt) = 0 THEN _delete_tag(ruby_inner)
    ELSE LET first == BeforeFirstCI(ruby_inner, RubyRt)                        \* splited_ruby[0]
             second == BeforeFirstCI(AfterFirstCI(ruby_inner, RubyRt), RubyRt) \* splited_ruby[1]
             ruby_base == _delete_tag(BeforeFirstCI(first, RubyRp))
             ruby_text == _delete_tag(BeforeFirstCI(second, RubyRp))
         IN IF ruby_text # <<>> /\ Range(ruby_text) \subseteq {NAKATEN, TOUTEN}
            THEN BoutenOpen \o ruby_base \o BoutenClose
            ELSE <<Zen("|")>> \o ruby_base \o <<LRUBY>> \o ruby_text \o <<RRUBY>>

RECURSIVE RubyFrom(_, _)
\* re.sub(r'<ruby>(.+?)</ruby>', ruby_repl, text, flags=re.IGNORECASE | re.DOTALL)
RubyFrom(s, i) ==
    IF i > Len(s) THEN <<>>
    ELSE IF StartsWithAtCI(s, i, RubyOpen) /\ FindCI(s, i + 7, RubyClose) # 0
         THEN LET j == FindCI(s, i + 7, RubyClose) IN
              ruby_repl(SubSeq(s, i + 6, j - 1)) \o RubyFrom(s, j + 7)
    ELSE <<s[i]>> \o RubyFrom(s, i + 1)

ImgOpen == <<"<", "i", "m", "g">>
ImgSrc == <<"s", "r", "c", "=", DQ>>

\* The end of the line that holds position i: the first '\n' at or after i, or Len + 1.
LineEnd(s, i) == IF FirstIn(s, i, {NL}) = 0 THEN Len(s) + 1 ELSE FirstIn(s, i, {NL})

\* For  src="  at p: the closing quote of (?P<src>.+?)" , or 0 when the rest cannot match.
ImgQuote(s, p, e) ==
    LET q == FirstIn(s, p + 6, {DQ}) IN
    IF p + 5 < e /\ q # 0 /\ q < e /\ FirstIn(s, q + 1, {">"}) # 0 /\ FirstIn(s, q + 1, {">"}) < e
    THEN q ELSE 0

\* The match of <img.+?src="(?P<src>.+?)".*?> at i: [p, q, g] or p = 0.
ImgMatch(s, i) ==
    LET e == LineEnd(s, i)
        ok(p) == p + 4 < e /\ StartsWithAtCI(s, p, ImgSrc) /\ ImgQuote(s, p, e) # 0
    IN IF StartsWithAtCI(s, i, ImgOpen) /\ \E p \in (i + 5)..Len(s) : ok(p)
       THEN LET p == CHOOSE p \in (i + 5)..Len(s) : ok(p) /\ \A k \in (i + 5)..(p - 1) : ~ok(k)
                q == ImgQuote(s, p, e)
            IN [p |-> p, q |-> q, g |-> FirstIn(s, q + 1, {">"})]
       ELSE [p |-> 0, q |-> 0, g |-> 0]

\* img_repl (lines 44-46)
img_repl(src) == <<ZLB, ZSHARP, "@sashie", Zen("(")>> \o src \o <<Zen(")"), "@hairu", ZRB>>

RECURSIVE ImgFrom(_, _)
ImgFrom(s, i) ==
    IF i > Len(s) THEN <<>>
    ELSE LET m == ImgMatch(s, i) IN
         IF m.p # 0 THEN img_repl(SubSeq(s, m.p + 5, m.q - 1)) \o ImgFrom(s, m.g + 1)
         ELSE <<s[i]>> \o ImgFrom(s, i + 1)

EmOpen == <<"<","e","m"," ","c","l","a","s","s","=",DQ,
            "e","m","p","h","a","s","i","s","D","o","t","s",DQ,">">>
EmClose == <<"<", "/", "e", "m", ">">>

\* The least j >= from where pat occurs (case-sensitively), or 0.
Find(s, from, pat) ==
    IF \E j \in from..Len(s) : StartsWithAt(s, j, pat)
    THEN CHOOSE j \in from..Len(s) :
            StartsWithAt(s, j, pat) /\ \A k \in from..(j - 1) : ~StartsWithAt(s, k, pat)
    ELSE 0

RECURSIVE EmFrom(_, _)
\* re.sub(r'<em class="emphasisDots">(.+?)</em>', ..., flags=re.DOTALL)
EmFrom(s, i) ==
    IF i > Len(s) THEN <<>>
    ELSE IF StartsWithAt(s, i, EmOpen) /\ Find(s, i + Len(EmOpen) + 1, EmClose) # 0
         THEN LET j == Find(s, i + Len(EmOpen) + 1, EmClose) IN
              BoutenOpen \o SubSeq(s, i + Len(EmOpen), j - 1) \o BoutenClose
                  \o EmFrom(s, j + Len(EmClose))
    ELSE <<s[i]>> \o EmFrom(s, i + 1)

\* html.unescape, with the entity table cut down to lt, gt, amp and quot
\* (numeric references are left alone: the modelled inputs hold none).
EntityNames == <<<<"a", "m", "p">>, <<"q", "u", "o", "t">>, <<"l", "t">>, <<"g", "t">>,
                 <<"A", "M", "P">>, <<"Q", "U", "O", "T">>, <<"L", "T">>, <<"G", "T">>>>
EntityChars == <<"&", DQ, "<", ">", "&", DQ, "<", ">">>
\* The entity whose name starts at i (0 when none): the longest name wins, and no
\* name of the table is a prefix of another.
EntityAt(s, i) ==
    IF \E n \in 1..Len(EntityNames) : StartsWithAt(s, i, EntityNames[n])
    THEN CHOOSE n \in 1..Len(EntityNames) : StartsWithAt(s, i, EntityNames[n])
    ELSE 0

RECURSIVE UnescapeFrom(_, _)
UnescapeFrom(s, i) ==
    IF i > Len(s) THEN <<>>
    ELSE IF s[i] = "&" /\ EntityAt(s, i + 1) # 0
         THEN LET n == EntityAt(s, i + 1)
                  after == i + 1 + Len(EntityNames[n])
              IN <<EntityChars[n]>> \o
                 UnescapeFrom(s, IF after <= Len(s) /\ s[after] = ";" THEN after + 1 ELSE after)
    ELSE <<s[i]>> \o UnescapeFrom(s, i + 1)

html_unescape(s) == UnescapeFrom(s, 1)

_html_to_aozora(v, pre_html) ==
    IF v = <<>> THEN <<>>
    ELSE LET t1 == IF pre_html THEN v ELSE BrFrom(DropNewlines(v), 1)
             t2 == EndPFrom(t1, 1)
             t3 == RubyFrom(t2, 1)
             t4 == ReplaceCI(ReplaceCI(t3, <<"<", "b", ">">>, Annot(<<"@futoji">>)),
                             <<"<", "/", "b", ">">>, Annot(<<"@futoji", "@owari">>))
             t5 == ReplaceCI(ReplaceCI(t4, <<"<", "i", ">">>, Annot(<<"@shatai">>)),
                             <<"<", "/", "i", ">">>, Annot(<<"@shatai", "@owari">>))
             t6 == ReplaceCI(ReplaceCI(t5, <<"<", "s", ">">>, Annot(<<"@torikeshisen">>)),
                             <<"<", "/", "s", ">">>, Annot(<<"@torikeshisen", "@owari">>))
             t7 == ImgFrom(t6, 1)
             t8 == EmFrom(t7, 1)
         IN html_unescape(_delete_tag(t8))

----------------------------------------------------------------------------
(* Punctuation parity, auto-join, page-break marker, <KBR>/<PBR> *)

_hankakukana_to_zenkakukana(t) ==
    Translate(Translate(t, <<Zen("-")>>, <<MINUS>>), <<EMDASH>>, <<DASH>>)

\* The characters that may not follow the indent of a joined continuation line:
\* 「『(（【<＜〈《≪・■…‥―　, １-９ and the code points 一-九 (U+4E00..U+4E5D),
\* which hold the kanji digits 一 七 三 九 only.
NoJoinChars ==
    {LKAGI, LWKAGI, "(", Zen("("), LSUMI, "<", Zen("<"), LANGLE, LRUBY, LDANGLE,
     NAKATEN, "SQ_B", LEADER3, LEADER2, DASH, ZSP, "K1", "K3", "K7", "K9"}
        \cup {Zen(HankakuNum[d]) : d \in 2..10}

RECURSIVE JoinStarts(_, _)
\* Where (?:[ 　\t]*\n)* can stop when it starts at pos: after 0, 1, 2, ... blank lines.
JoinStarts(s, pos) ==
    LET w == RunLen(s, pos, BlankChars) IN
    IF pos + w <= Len(s) /\ s[pos + w] = NL
    THEN <<pos>> \o JoinStarts(s, pos + w + 1)
    ELSE <<pos>>

\* The indent position the greedy match ends on, or 0.
JoinIndent(s, i) ==
    IF i + 2 <= Len(s) /\ s[i] # TOUTEN /\ s[i + 1] = TOUTEN /\ s[i + 2] = NL
    THEN LET c == JoinStarts(s, i + 3)
             ok(n) == c[n] + 1 <= Len(s) /\ s[c[n]] = ZSP /\ s[c[n] + 1] \notin NoJoinChars
         IN IF \E n \in 1..Len(c) : ok(n)
            THEN c[CHOOSE n \in 1..Len(c) : ok(n) /\ \A k \in (n + 1)..Len(c) : ~ok(k)]
            ELSE 0
    ELSE 0

RECURSIVE AutoJoinFrom(_, _)
AutoJoinFrom(s, i) ==
    IF i > Len(s) THEN <<>>
    ELSE IF JoinIndent(s, i) # 0
         THEN <<s[i], TOUTEN, s[JoinIndent(s, i) + 1]>> \o AutoJoinFrom(s, JoinIndent(s, i) + 2)
    ELSE <<s[i]>> \o AutoJoinFrom(s, i + 1)

_auto_join_line(t) == AutoJoinFrom(t, 1)

\* toc.story: both branches return text (lines 398-402).
_ensure_story_linebreaks(t) == t

KaiPage == <<LSUMI, "@kaipage", RSUMI>>                   \* 【改ページ】
RemoveKaiPage(t) == Replace(t, KaiPage, <<>>)
KbrToNewline(t) == ReplaceCI(t, <<"<", "K", "B", "R", ">">>, <<NL>>)
PbrToNewline(t) == ReplaceCI(t, <<"<", "P", "B", "R", ">">>, <<NL>>)

----------------------------------------------------------------------------
(* Protected-span stash/restore *)

_KANJI_NUM == <<"K0","K1","K2","K3","K4","K5","K6","K7","K8","K9">>  \* 〇一二三四五六七八九
_ZENKAKU_NUM == [d \in 1..10 |-> Zen(HankakuNum[d])]                 \* ０１２３４５６７８９
_URL_SENTINEL_OPEN == Chr(57344)        \* U+E000
_URL_SENTINEL_CLOSE == Chr(57345)       \* U+E001
_URL_SENTINEL_BASE == 57600
_ENGLISH_SENTINEL_OPEN == Chr(57346)    \* U+E002
_ENGLISH_SENTINEL_CLOSE == Chr(57347)   \* U+E003
_ENGLISH_SENTINEL_BASE == 57856
_NUM_SENTINEL_OPEN == Chr(57349)        \* U+E005
_NUM_SENTINEL_CLOSE == Chr(57350)       \* U+E006
_NUM_SENTINEL_BASE == 58112
_KOME_SENTINEL == Chr(57348)            \* U+E004

_alphabet_to_zenkaku(t) ==
    [i \in 1..Len(t) |-> IF t[i] \in AsciiLetters THEN Zen(t[i]) ELSE t[i]]

\* The placeholder of entry idx (0-based) of a table.
Placeholder(open, base, idx, close) == <<open, Chr(base + idx), close>>

UrlChars ==
    AsciiLetters \cup AsciiDigits \cup
    {"-", ".", "_", "~", ":", "/", "?", "#", "[", "]", "@", "!", "$", "&", "'",
     "(", ")", "*", "+", ",", ";", "=", "%"}

\* The length of the match of  https?://[...]+  at i, or 0.
UrlLen(s, i) ==
    LET scheme == IF StartsWithAt(s, i, <<"h","t","t","p","s",":","/","/">>) THEN 8
                  ELSE IF StartsWithAt(s, i, <<"h","t","t","p",":","/","/">>) THEN 7
                  ELSE 0
        n == RunLen(s, i + scheme, UrlChars)
    IN IF scheme # 0 /\ n >= 1 THEN scheme + n ELSE 0

RECURSIVE StashUrlsFrom(_, _, _, _, _)
\* pattern.sub(repl, text) from position i on; len(urls) is first + Len(table):
\* first entries were stashed from lines that s does not hold.
StashUrlsFrom(s, i, out, table, first) ==
    IF i > Len(s) THEN [text |-> out, table |-> table, raised |-> FALSE]
    ELSE LET n == UrlLen(s, i)
             idx == first + Len(table)
         IN IF n # 0
            THEN IF ChrRaises(_URL_SENTINEL_BASE + idx)
                 THEN [text |-> out, table |-> table, raised |-> TRUE]
                 ELSE StashUrlsFrom(s, i + n,
                          out \o Placeholder(_URL_SENTINEL_OPEN, _URL_SENTINEL_BASE,
                                             idx, _URL_SENTINEL_CLOSE),
                          Append(table, SubSeq(s, i, i + n - 1)), first)
            ELSE StashUrlsFrom(s, i + 1, Append(out, s[i]), table, first)

\* urls: list[str] = []   (line 95): every call starts from its own empty list
_stash_urls(t) == StashUrlsFrom(t, 1, <<>>, <<>>, 0)

EnglishChars ==
    AsciiLetters \cup AsciiDigits \cup {"_", ".", ",", "!", "?", DQ, "'", SP, "&", ":", ";", "-"}

\* The number of non-empty chunks of token.split(' ')
RECURSIVE Chunks(_, _)
Chunks(t, i) ==
    IF i > Len(t) THEN 0
    ELSE IF t[i] = SP THEN Chunks(t, i + 1)
    ELSE 1 + Chunks(t, i + RunLen(t, i, Range(t) \ {SP}))

sentence_like(token) == Chunks(token, 1) >= 2
long_ascii_word(token) == Len(token) >= 8 /\ Range(token) \cap AsciiLetters # {}

RECURSIVE StashEnglishFrom(_, _, _, _, _)
\* pattern.sub(repl, text) from position i on; len(english_sentences) is
\* first + Len(table).
StashEnglishFrom(s, i, out, table, first) ==
    IF i > Len(s) THEN [text |-> out, table |-> table, raised |-> FALSE]
    ELSE LET n == RunLen(s, i, EnglishChars)
             token == SubSeq(s, i, i + n - 1)
             idx == first + Len(table)
         IN IF n = 0 THEN StashEnglishFrom(s, i + 1, Append(out, s[i]), table, first)
            ELSE IF sentence_like(token) \/ long_ascii_word(token)
            THEN IF ChrRaises(_ENGLISH_SENTINEL_BASE + idx)
                 THEN [text |-> out, table |-> table, raised |-> TRUE]
                 ELSE StashEnglishFrom(s, i + n,
                          out \o Placeholder(_ENGLISH_SENTINEL_OPEN, _ENGLISH_SENTINEL_BASE,
                                             idx, _ENGLISH_SENTINEL_CLOSE),
                          Append(table, token), first)
            ELSE StashEnglishFrom(s, i + n, out \o _alphabet_to_zenkaku(token), table, first)

_stash_english_sentences(t) == StashEnglishFrom(t, 1, <<>>, <<>>, 0)

RECURSIVE RebuildFrom(_, _, _, _, _, _)
\* for idx, item in enumerate(table): text = text.replace(placeholder(idx), wrap(item))
RebuildFrom(t, table, idx, open, base, close) ==
    IF idx >= Len(table) THEN t
    ELSE RebuildFrom(Replace(t, Placeholder(open, base, idx, close), table[idx + 1]),
                     table, idx + 1, open, base, close)

\* <a href="{url}">{url}</a>
Anchor(url) == <<"<", "a", " ", "h", "r", "e", "f", "=", DQ>> \o url \o <<DQ, ">">>
                   \o url \o <<"<", "/", "a", ">">>

\* The restores of a list whose entries follow first entries that it does not
\* hold: entry k of it is entry first + k of the list of the call.
RebuildUrlsAfter(t, table, first) ==
    RebuildFrom(t, [i \in 1..Len(table) |-> Anchor(table[i])], 0,
                _URL_SENTINEL_OPEN, _URL_SENTINEL_BASE + first, _URL_SENTINEL_CLOSE)
RebuildEnglishAfter(t, table, first) ==
    RebuildFrom(t, table, 0, _ENGLISH_SENTINEL_OPEN, _ENGLISH_SENTINEL_BASE + first,
                _ENGLISH_SENTINEL_CLOSE)
RebuildNumsAfter(t, nums, first) ==
    RebuildFrom(t, nums, 0, _NUM_SENTINEL_OPEN, _NUM_SENTINEL_BASE + first,
                _NUM_SENTINEL_CLOSE)

_rebuild_urls(t, table) == RebuildUrlsAfter(t, table, 0)
_rebuild_english_sentences(t, table) == RebuildEnglishAfter(t, table, 0)
_rebuild_hankaku_num_and_comma(t, nums) == RebuildNumsAfter(t, nums, 0)

_stash_kome(t) == Translate(t, <<KOME>>, <<_KOME_SENTINEL>>)

\* ※［＃米印、1-2-8］
KomeGaiji == <<KOME, ZLB, ZSHARP, "@komejirushi", TOUTEN, "1", "-", "2", "-", "8", ZRB>>
_rebuild_kome_to_gaiji(t) == Replace(t, <<_KOME_SENTINEL>>, KomeGaiji)

----------------------------------------------------------------------------
(* Symbol normalizer: _symbols_to_zenkaku *)

RECURSIVE QuoteFrom(_, _, _)
\* re.sub(r'[Q]([^"\n]+?)[Q]', r'〝\1〟', text) for a class Q of quotation marks
QuoteFrom(s, i, Q) ==
    IF i > Len(s) THEN <<>>
    ELSE LET j == FirstIn(s, i + 2, Q) IN
         IF s[i] \in Q /\ j # 0 /\ \A k \in (i + 1)..(j - 1) : s[k] \notin {DQ, NL}
         THEN <<LDPRIME>> \o SubSeq(s, i + 1, j - 1) \o <<RDPRIME>> \o QuoteFrom(s, j + 1, Q)
         ELSE <<s[i]>> \o QuoteFrom(s, i + 1, Q)

SymbolsFrom ==
    <<"-", "=", "+", "/", "*", LRUBY, RRUBY, "'", DQ, "%", "$", "#", "&", "!", "?",
      "<", ">", Zen("<"), Zen(">"), "(", ")", "|", HYPHEN, ",", ".", "_", ";", ":",
      "[", "]", "{", "}">>
SymbolsTo ==
    <<Zen("-"), Zen("="), Zen("+"), Zen("/"), Zen("*"), LDANGLE, RDANGLE, RSQ, LDPRIME,
      Zen("%"), Zen("$"), Zen("#"), Zen("&"), Zen("!"), Zen("?"),
      LANGLE, RANGLE, LANGLE, RANGLE, Zen("("), Zen(")"), Zen("|"), Zen("-"),
      Zen(","), Zen("."), Zen("_"), Zen(";"), Zen(":"), Zen("["), Zen("]"), Zen("{"), Zen("}")>>

_symbols_to_zenkaku(t) ==
    LET t1 == QuoteFrom(t, 1, {LSQ, RSQ, "'"})
        t2 == QuoteFrom(t1, 1, {LDQ, RDQ, LDPRIME, RDPRIME, DQ})
    IN Translate(Translate(t2, SymbolsFrom, SymbolsTo), <<BSL>>, <<YEN>>)

----------------------------------------------------------------------------
(* Digit normalizer: _convert_numbers and _exception_reconvert_kanji_to_num *)

ZenDigits == Range(_ZENKAKU_NUM)
KanjiDigits == Range(_KANJI_NUM)
\* \d on a str pattern takes the decimal digits of every script.
UnicodeDigits == AsciiDigits \cup ZenDigits \cup {ARABIC3}
DigitClass == UnicodeDigits \cup KanjiDigits            \* digit_class (line 182)
Commas == {",", Zen(",")}
ZenLetters == {Zen(c) : c \in AsciiLetters}             \* [Ａ-Ｚａ-ｚ]

\* The half-width digits alone made kanji numerals.
hankaku_digits_to_kanji(t) == Translate(t, HankakuNum, _KANJI_NUM)

_digits_to_kanji(t) ==
    Translate(t, HankakuNum \o _ZENKAKU_NUM, _KANJI_NUM \o _KANJI_NUM)

RECURSIVE DecimalFrom(_, _)
\* re.sub(rf'([{digit_class}]+?)[\.．]([{digit_class}]+?)', r'\1・\2', text)
DecimalFrom(s, i) ==
    IF i > Len(s) THEN <<>>
    ELSE LET n == RunLen(s, i, DigitClass) IN
         IF /\ n >= 1 /\ i + n + 1 <= Len(s)
            /\ s[i + n] \in {".", Zen(".")} /\ s[i + n + 1] \in DigitClass
         THEN SubSeq(s, i, i + n - 1) \o <<NAKATEN, s[i + n + 1]>> \o DecimalFrom(s, i + n + 2)
         ELSE <<s[i]>> \o DecimalFrom(s, i + 1)

RECURSIVE HankakuNumFrom(_, _, _)
\* re.sub(r'\d+', repl, text) of _hankaku_num_to_zenkaku_num
HankakuNumFrom(s, i, kind) ==
    IF i > Len(s) THEN <<>>
    ELSE LET n == RunLen(s, i, UnicodeDigits)
             token == SubSeq(s, i, i + n - 1)
         IN IF n = 0 THEN <<s[i]>> \o HankakuNumFrom(s, i + 1, kind)
            ELSE (IF Len(token) = 2 THEN tcy(token)
                  ELSE IF Len(token) = 3 /\ kind = "subtitle" /\ i = 1 THEN tcy(token)
                  ELSE Translate(token, HankakuNum, _ZENKAKU_NUM))
                 \o HankakuNumFrom(s, i + n, kind)

_hankaku_num_to_zenkaku_num(t, kind) == HankakuNumFrom(t, 1, kind)

VerticalKinds == {"subtitle", "chapter", "story"}

RECURSIVE NumRunsFrom(_, _, _, _, _)
\* re.sub(r'[\d０-９,，]+', repl, text) of _convert_numbers; len(num_and_comma)
\* is first + Len(nums).
NumRunsFrom(s, i, out, nums, first) ==
    IF i > Len(s) THEN [text |-> out, table |-> nums, raised |-> FALSE]
    ELSE LET n == RunLen(s, i, UnicodeDigits \cup Commas)
             token == SubSeq(s, i, i + n - 1)
             idx == first + Len(nums)
         IN IF n = 0 THEN NumRunsFrom(s, i + 1, Append(out, s[i]), nums, first)
            ELSE IF Range(token) \cap Commas # {}
            THEN IF Range(token) \cap UnicodeDigits # {}
                 THEN IF ChrRaises(_NUM_SENTINEL_BASE + idx)
                      THEN [text |-> out, table |-> nums, raised |-> TRUE]
                      ELSE NumRunsFrom(s, i + n,
                               out \o Placeholder(_NUM_SENTINEL_OPEN, _NUM_SENTINEL_BASE,
                                                  idx, _NUM_SENTINEL_CLOSE),
                               Append(nums, Translate(token, <<Zen(",")>>, <<",">>)), first)
                 ELSE NumRunsFrom(s, i + n, out \o token, nums, first)
            ELSE NumRunsFrom(s, i + n, out \o _digits_to_kanji(token), nums, first)

\* Lines 189-203 of _convert_numbers, on the text t1 that lines 184-188 left.
\* [text, table]: the pair returned; vertical: it returned at line 190;
\* raised: chr raised in repl.
NumbersAfterDecimal(t1, kind, first) ==
    LET r == NumRunsFrom(t1, 1, <<>>, <<>>, first)
    IN IF kind \in VerticalKinds
       THEN [text |-> _hankaku_num_to_zenkaku_num(t1, kind), table |-> <<>>,
             vertical |-> TRUE, raised |-> FALSE]
       ELSE [text |-> r.text, table |-> r.table, vertical |-> FALSE, raised |-> r.raised]

\* _convert_numbers when num_and_comma of earlier calls holds first entries.
ConvertNumbersAfter(t, kind, first) == NumbersAfterDecimal(DecimalFrom(t, 1), kind, first)

_convert_numbers(t, kind) == ConvertNumbersAfter(t, kind, 0)

UnitChars == {Zen("%"), "UNIT_MM", "UNIT_CM", "UNIT_KM", "UNIT_MG", "UNIT_KG",
              "UNIT_CC", "UNIT_M2", "UNIT_M3"}            \* ％㎜㎝㎞㎎㏄㎏㎡㎥
KanjiRunChars == KanjiDigits \cup {NAKATEN, Zen("~")}     \* [〇一二三四五六七八九・～]

to_zenkaku_digits(token) == Translate(token, _KANJI_NUM, _ZENKAKU_NUM)

RECURSIVE AfterLetterFrom(_, _)
\* ([Ａ-Ｚａ-ｚ])([kanji・～]+)
AfterLetterFrom(s, i) ==
    IF i > Len(s) THEN <<>>
    ELSE LET n == RunLen(s, i + 1, KanjiRunChars) IN
         IF s[i] \in ZenLetters /\ n >= 1
         THEN <<s[i]>> \o to_zenkaku_digits(SubSeq(s, i + 1, i + n)) \o AfterLetterFrom(s, i + 1 + n)
         ELSE <<s[i]>> \o AfterLetterFrom(s, i + 1)

RECURSIVE BeforeUnitDigitsFrom(_, _)
\* The second substitution with [kanji]+ for its run
BeforeUnitDigitsFrom(s, i) ==
    IF i > Len(s) THEN <<>>
    ELSE LET n == RunLen(s, i, KanjiDigits) IN
         IF n >= 1 /\ i + n <= Len(s) /\ s[i + n] \in ZenLetters \cup UnitChars
         THEN to_zenkaku_digits(SubSeq(s, i, i + n - 1)) \o <<s[i + n]>>
                  \o BeforeUnitDigitsFrom(s, i + n + 1)
         ELSE <<s[i]>> \o BeforeUnitDigitsFrom(s, i + 1)

RECURSIVE BeforeUnitFrom(_, _)
\* ([kanji・～]+)([Ａ-Ｚａ-ｚ units])
BeforeUnitFrom(s, i) ==
    IF i > Len(s) THEN <<>>
    ELSE LET n == RunLen(s, i, KanjiRunChars) IN
         IF n >= 1 /\ i + n <= Len(s) /\ s[i + n] \in ZenLetters \cup UnitChars
         THEN to_zenkaku_digits(SubSeq(s, i, i + n - 1)) \o <<s[i + n]>> \o BeforeUnitFrom(s, i + n + 1)
         ELSE <<s[i]>> \o BeforeUnitFrom(s, i + 1)

_exception_reconvert_kanji_to_num(t) == BeforeUnitFrom(AfterLetterFrom(t, 1), 1)

----------------------------------------------------------------------------
(* Typographic post-processors *)

Bangs == {"!", "?", Zen("!"), Zen("?")}
\* close_chars (line 226)
CloseChars ==
    {RKAGI, ZRB, Zen("}"), "]", SP, "}", RWKAGI, RSUMI, RANGLE, RRUBY, RKIKKO, Zen(">"), ">",
     RDANGLE, ")", Zen(")"), DQ, RDQ, RSQ, RDPRIME, ZSP, "STAR_W", "STAR_B", NOTE, ZLB, DASH}

RECURSIVE SeparateFrom(_, _)
\* re.sub(r'([!?！？]+)([^!?！？])', repl, text)
SeparateFrom(s, i) ==
    IF i > Len(s) THEN <<>>
    ELSE LET n == RunLen(s, i, Bangs) IN
         IF n >= 1 /\ i + n <= Len(s)
         THEN LET c == s[i + n]
                  m2 == IF c \in {SP, ZSP, TOUTEN, KUTEN} THEN ZSP ELSE c
              IN SubSeq(s, i, i + n - 1)
                 \o (IF m2 \notin CloseChars THEN <<ZSP, m2>> ELSE <<m2>>)
                 \o SeparateFrom(s, i + n + 1)
         ELSE <<s[i]>> \o SeparateFrom(s, i + 1)

_insert_separate_space(t) == SeparateFrom(t, 1)

\* bang_repl without lines 252-253: an odd run is not rounded up.
bang_repl_rounded_down(s, i, n) ==
    LET left == IF i > 1 THEN s[i - 1] ELSE ""
        right == IF i + n <= Len(s) THEN s[i + n] ELSE ""
    IN IF left = Zen("?") \/ right = Zen("?") THEN SubSeq(s, i, i + n - 1)
       ELSE IF n = 3 THEN tcy(<<"!", "!", "!">>)
       ELSE IF n >= 4 THEN Repeat(tcy(<<"!", "!">>), n \div 2)
       ELSE SubSeq(s, i, i + n - 1)

\* bang_repl (lines 243-256) on a run of n ！ at i
bang_repl(s, i, n) ==
    LET left == IF i > 1 THEN s[i - 1] ELSE ""
        right == IF i + n <= Len(s) THEN s[i + n] ELSE ""
    IN IF left = Zen("?") \/ right = Zen("?") THEN SubSeq(s, i, i + n - 1)
       ELSE IF n = 3 THEN tcy(<<"!", "!", "!">>)
       ELSE IF n >= 4 THEN Repeat(tcy(<<"!", "!">>), (IF n % 2 = 1 THEN n + 1 ELSE n) \div 2)
       ELSE SubSeq(s, i, i + n - 1)

RECURSIVE BangFrom(_, _)
\* re.sub(r'！+', bang_repl, text)
BangFrom(s, i) ==
    IF i > Len(s) THEN <<>>
    ELSE LET n == RunLen(s, i, {Zen("!")}) IN
         IF n >= 1 THEN bang_repl(s, i, n) \o BangFrom(s, i + n)
         ELSE <<s[i]>> \o BangFrom(s, i + 1)

\* mixed_repl (lines 260-266)
mixed_repl(token) ==
    LET ascii == Translate(token, <<Zen("!"), Zen("?")>>, <<"!", "?">>) IN
    IF Len(token) = 2 THEN tcy(ascii)
    ELSE IF token \in {<<Zen("!"), Zen("!"), Zen("?")>>, <<Zen("?"), Zen("!"), Zen("!")>>}
         THEN tcy(ascii)
    ELSE token

RECURSIVE MixedFrom(_, _)
\* re.sub(r'[！？]+', mixed_repl, text)
MixedFrom(s, i) ==
    IF i > Len(s) THEN <<>>
    ELSE LET n == RunLen(s, i, {Zen("!"), Zen("?")}) IN
         IF n >= 1 THEN mixed_repl(SubSeq(s, i, i + n - 1)) \o MixedFrom(s, i + n)
         ELSE <<s[i]>> \o MixedFrom(s, i + 1)

_convert_tatechuyoko(t) == MixedFrom(BangFrom(t, 1), 1)

RECURSIVE KutenQuoteFrom(_, _)
\* The first substitution with [」』] for its class
KutenQuoteFrom(s, i) ==
    IF i > Len(s) THEN <<>>
    ELSE IF s[i] = KUTEN /\ i < Len(s) /\ s[i + 1] \in {RKAGI, RWKAGI}
         THEN <<s[i + 1]>> \o KutenQuoteFrom(s, i + 2)
    ELSE <<s[i]>> \o KutenQuoteFrom(s, i + 1)

RECURSIVE KutenBracketFrom(_, _)
\* re.sub(r'。([」』）])', r'\1', text)
KutenBracketFrom(s, i) ==
    IF i > Len(s) THEN <<>>
    ELSE IF s[i] = KUTEN /\ i < Len(s) /\ s[i + 1] \in {RKAGI, RWKAGI, Zen(")")}
         THEN <<s[i + 1]>> \o KutenBracketFrom(s, i + 2)
    ELSE <<s[i]>> \o KutenBracketFrom(s, i + 1)

RECURSIVE LongerRunsFrom(_, _, _)
\* The substitution with a character added to every run
LongerRunsFrom(s, i, c) ==
    IF i > Len(s) THEN <<>>
    ELSE LET n == RunLen(s, i, {c}) IN
         IF n >= 1 THEN Repeat(<<c>>, n + 1) \o LongerRunsFrom(s, i + n, c)
         ELSE <<s[i]>> \o LongerRunsFrom(s, i + 1, c)

RECURSIVE EvenRunsFrom(_, _, _)
\* re.sub(r'[c]+', lambda m: m.group(0) if len(m.group(0)) % 2 == 0 else m.group(0) + c, text)
EvenRunsFrom(s, i, c) ==
    IF i > Len(s) THEN <<>>
    ELSE LET n == RunLen(s, i, {c}) IN
         IF n >= 1 THEN Repeat(<<c>>, IF n % 2 = 0 THEN n ELSE n + 1) \o EvenRunsFrom(s, i + n, c)
         ELSE <<s[i]>> \o EvenRunsFrom(s, i + 1, c)

_convert_novel_rule(t) ==
    Replace(EvenRunsFrom(EvenRunsFrom(KutenBracketFrom(t, 1), 1, LEADER3), 1, LEADER2),
            <<KUTEN, ZSP>>, <<KUTEN>>)

RECURSIVE EllipsisPerSixFrom(_, _, _)
\* pattern.sub(repl, text) with a repl that returns two … for every six
\* characters begun after the first.
EllipsisPerSixFrom(s, i, c) ==
    IF i > Len(s) THEN <<>>
    ELSE LET n == RunLen(s, i, {c})
             pre_char == IF i > 1 THEN s[i - 1] ELSE ""
             post_char == IF i + n <= Len(s) THEN s[i + n] ELSE ""
         IN IF n >= 3
            THEN (IF pre_char = DASH \/ post_char = DASH THEN SubSeq(s, i, i + n - 1)
                  ELSE Repeat(<<LEADER3>>, ((n \div 6) + 1) * 2))
                 \o EllipsisPerSixFrom(s, i + n, c)
            ELSE <<s[i]>> \o EllipsisPerSixFrom(s, i + 1, c)

RECURSIVE EllipsisDashBlindFrom(_, _, _)
\* The pass without the test of pre_char and post_char
EllipsisDashBlindFrom(s, i, c) ==
    IF i > Len(s) THEN <<>>
    ELSE LET n == RunLen(s, i, {c})
         IN IF n >= 3
            THEN Repeat(<<LEADER3>>, ((n + 5) \div 6) * 2) \o EllipsisDashBlindFrom(s, i + n, c)
            ELSE <<s[i]>> \o EllipsisDashBlindFrom(s, i + 1, c)

RECURSIVE EllipsisFrom(_, _, _)
\* pattern.sub(repl, text) for one char of _convert_horizontal_ellipsis
EllipsisFrom(s, i, c) ==
    IF i > Len(s) THEN <<>>
    ELSE LET n == RunLen(s, i, {c})
             pre_char == IF i > 1 THEN s[i - 1] ELSE ""
             post_char == IF i + n <= Len(s) THEN s[i + n] ELSE ""
         IN IF n >= 3
            THEN (IF pre_char = DASH \/ post_char = DASH THEN SubSeq(s, i, i + n - 1)
                  ELSE Repeat(<<LEADER3>>, ((n + 5) \div 6) * 2))
                 \o EllipsisFrom(s, i + n, c)
            ELSE <<s[i]>> \o EllipsisFrom(s, i + 1, c)

_convert_horizontal_ellipsis(t) ==
    LET t1 == EllipsisFrom(t, 1, NAKATEN)
        t2 == EllipsisFrom(t1, 1, KUTEN)
        t3 == EllipsisFrom(t2, 1, TOUTEN)
        t4 == EllipsisFrom(t3, 1, Zen("."))
    IN Replace(Replace(t4, <<KUTEN, KUTEN>>, <<KUTEN>>), <<TOUTEN, TOUTEN>>, <<TOUTEN>>)

\* The length of the maximal run of characters outside excl that starts at i.
RECURSIVE RunLenNot(_, _, _)
RunLenNot(s, i, excl) ==
    IF i <= Len(s) /\ s[i] \notin excl THEN 1 + RunLenNot(s, i + 1, excl) ELSE 0

\* The match of  bar([^bar open close \n]+)open([^open close \n]+)close  at i:
\* the lengths of the two groups, or n1 = 0. inBase are the characters the base excludes.
RubyMatch(s, i, bar, open, close, inBase) ==
    LET n1 == RunLenNot(s, i + 1, inBase)
        n2 == RunLenNot(s, i + 2 + n1, {open, close, NL})
    IN IF /\ s[i] = bar /\ n1 >= 1 /\ i + 1 + n1 <= Len(s) /\ s[i + 1 + n1] = open
          /\ n2 >= 1 /\ i + 2 + n1 + n2 <= Len(s) /\ s[i + 2 + n1 + n2] = close
       THEN [n1 |-> n1, n2 |-> n2] ELSE [n1 |-> 0, n2 |-> 0]

RubyPunct == {LEADER3, LEADER2, KUTEN, Zen("."), TOUTEN, ",", "-"}   \* […‥。．、,\-]

RECURSIVE ExplicitRubyFrom(_, _)
\* re.sub(r'｜([^｜≪≫\n]+)≪([^≪≫\n]+)≫', repl, text)
ExplicitRubyFrom(s, i) ==
    IF i > Len(s) THEN <<>>
    ELSE LET m == RubyMatch(s, i, Zen("|"), LDANGLE, RDANGLE, {Zen("|"), LDANGLE, RDANGLE, NL})
             base == SubSeq(s, i + 1, i + m.n1)
             ruby == SubSeq(s, i + 2 + m.n1, i + 1 + m.n1 + m.n2)
         IN IF m.n1 = 0 THEN <<s[i]>> \o ExplicitRubyFrom(s, i + 1)
            ELSE (IF Range(ruby) \subseteq RubyPunct
                  THEN SubSeq(s, i, i + 2 + m.n1 + m.n2)
                  ELSE <<Zen("|")>> \o base \o <<LRUBY>> \o ruby \o <<RRUBY>>)
                 \o ExplicitRubyFrom(s, i + 3 + m.n1 + m.n2)

_restore_explicit_ruby(t) == ExplicitRubyFrom(t, 1)

RubyBar == Annot(<<"@rubiyou", "@tatesen">>)              \* ［＃ルビ用縦線］
TatesenGaiji == <<KOME>> \o Annot(<<"@tatesen">>)         \* ※［＃縦線］

\* The first statement of _replace_tatesen with no span found
ShieldNoneFrom(s, i) == SubSeq(s, i, Len(s))

RECURSIVE ShieldRubyFrom(_, _)
\* re.sub(r'｜([^｜《》\n]+)《([^《》\n]+)》', r'［＃ルビ用縦線］\1《\2》', text)
ShieldRubyFrom(s, i) ==
    IF i > Len(s) THEN <<>>
    ELSE LET m == RubyMatch(s, i, Zen("|"), LRUBY, RRUBY, {Zen("|"), LRUBY, RRUBY, NL}) IN
         IF m.n1 = 0 THEN <<s[i]>> \o ShieldRubyFrom(s, i + 1)
         ELSE RubyBar \o SubSeq(s, i + 1, i + 2 + m.n1 + m.n2)
              \o ShieldRubyFrom(s, i + 3 + m.n1 + m.n2)

_replace_tatesen(t) ==
    Replace(Replace(ShieldRubyFrom(t, 1), <<Zen("|")>>, TatesenGaiji), RubyBar, <<Zen("|")>>)

OpenDangleGaiji == <<KOME>> \o Annot(<<"@hajime", "@nijuuyamakakko">>)   \* ※［＃始め二重山括弧］
CloseDangleGaiji == <<KOME>> \o Annot(<<"@owari", "@nijuuyamakakko">>)   \* ※［＃終わり二重山括弧］

_convert_double_angle_quotation_to_gaiji(t) ==
    Replace(Replace(t, <<LDANGLE>>, OpenDangleGaiji), <<RDANGLE>>, CloseDangleGaiji)

RECURSIVE ZspFrom(_, _)
\* re.sub('　{3,}', '　　', text)
ZspFrom(s, i) ==
    IF i > Len(s) THEN <<>>
    ELSE LET n == RunLen(s, i, {ZSP}) IN
         IF n >= 3 THEN <<ZSP, ZSP>> \o ZspFrom(s, i + n)
         ELSE <<s[i]>> \o ZspFrom(s, i + 1)

CollapseZsp(t) == ZspFrom(t, 1)

----------------------------------------------------------------------------
(* Layout normalizer: _half_indent_bracket, and the final trims *)

OpenBrackets == {LKIKKO, LKAGI, LWKAGI, "(", Zen("("), LSUMI, LANGLE, LRUBY, LDANGLE, LDPRIME}
HalfIndent == Annot(<<"@nibuaki">>)                       \* ［＃二分アキ］

\* The pattern with the leading whitespace of the line left in its place
HalfIndentLineInsert(line) ==
    LET w == RunLen(line, 1, BlankChars) IN
    IF w < Len(line) /\ (line[w + 1] \in OpenBrackets \/ StartsWithAt(line, w + 1, OpenDangleGaiji))
    THEN SubSeq(line, 1, w) \o HalfIndent \o SubSeq(line, w + 1, Len(line))
    ELSE line

\* The pattern of _half_indent_bracket on one line ('^' under re.MULTILINE).
HalfIndentLine(line) ==
    LET w == RunLen(line, 1, BlankChars) IN
    IF w < Len(line) /\ (line[w + 1] \in OpenBrackets \/ StartsWithAt(line, w + 1, OpenDangleGaiji))
    THEN HalfIndent \o SubSeq(line, w + 1, Len(line))
    ELSE line

_half_indent_bracket(t) ==
    LET ls == SplitLines(t) IN JoinLines([i \in 1..Len(ls) |-> HalfIndentLine(ls[i])])

\* Both ends of every line stripped, where the code strips the right end only.
StripLineEnds(t) ==
    LET ls == SplitLines(t) IN JoinLines([i \in 1..Len(ls) |-> Strip(ls[i], BlankChars)])

\* re.sub(r'[ 　\t]+$', '', text, flags=re.MULTILINE)
TrimLineEnds(t) ==
    LET ls == SplitLines(t) IN JoinLines([i \in 1..Len(ls) |-> RStrip(ls[i], BlankChars)])

Whitespace == {SP, TAB, NL, CR, ZSP}                      \* [　\s] within the alphabet
\* The last trim over spaces only, where the code's class holds every whitespace.
TrimEndSpaces(t) == RStrip(t, BlankChars)

\* re.sub(r'[　\s]+\Z', '', text)
TrimEnd(t) == RStrip(t, Whitespace)

----------------------------------------------------------------------------
(* _convert_html_fragment_to_aozora as a function (lines 404-443) *)

\* The layout branch of line 435 taken for body only.
LayoutBodyOnly == {"body"}

Kinds == {"title", "story", "chapter", "subtitle", "introduction", "body", "postscript", "textfile"}
LayoutKinds == {"body", "textfile"}                       \* line 435
PackOnlyKinds == {"introduction", "postscript"}           \* line 439

\* pre_html of line 407
PreHtml(v, kind) == kind = "story" /\ "<" \notin Range(v) /\ ">" \notin Range(v)

\* lines 408-415: the text that reaches the protected-span stash
BeforeStash(v, kind) ==
    LET t1 == _hankakukana_to_zenkakukana(_html_to_aozora(v, PreHtml(v, kind)))
        t2 == IF kind = "story" THEN _ensure_story_linebreaks(t1) ELSE t1
    IN PbrToNewline(KbrToNewline(RemoveKaiPage(_auto_join_line(t2))))

\* lines 423-429: the rewriting between the digit normalizer and the restores
Typography(t) ==
    _convert_double_angle_quotation_to_gaiji(_replace_tatesen(_restore_explicit_ruby(
        _convert_horizontal_ellipsis(_convert_novel_rule(_convert_tatechuyoko(
            _insert_separate_space(t)))))))

\* lines 435-440: the layout normalizer, by text kind
Layout(t, kind) ==
    IF kind \in LayoutKinds
    THEN _convert_tatechuyoko(_pack_blank_lines(_half_indent_bracket(t)))
    ELSE IF kind \in PackOnlyKinds THEN _pack_blank_lines(t)
    ELSE t

_convert_html_fragment_to_aozora(v, kind) ==
    IF v = <<>> THEN <<>>
    ELSE LET u == _stash_urls(BeforeStash(v, kind))
             e == _stash_english_sentences(u.text)
             n == _convert_numbers(_symbols_to_zenkaku(_stash_kome(e.text)), kind)
             t1 == IF kind \notin VerticalKinds
                   THEN _exception_reconvert_kanji_to_num(n.text) ELSE n.text
             t2 == _rebuild_kome_to_gaiji(_rebuild_urls(_rebuild_hankaku_num_and_comma(
                       _rebuild_english_sentences(Typography(t1), e.table), n.table), u.table))
         IN TrimEnd(TrimLineEnds(Layout(CollapseZsp(t2), kind)))

----------------------------------------------------------------------------
(* The calls of _convert_html_fragment_to_aozora, one action per statement *)

Calls == {1, 2}
MaxCalls == 2           \* how often one call is made with the same arguments

\* One frame for every call: the lists kept on the class, not in locals.
SharedFrame(c) == 1

\* The frame that holds the locals urls, english_sentences and num_and_comma of
\* call c: the lists are created by the call's own _stash_* / _convert_numbers
\* (lines 95, 116, 183) and bound to locals at lines 416, 417 and 420.
Frame(c) == c

\* The statement after the one at label at, for text kind kind (the ifs of lines
\* 410, 421, 435 and 439 choose it).
NextStatement(at, kind) ==
    CASE at = "_html_to_aozora" -> "_hankakukana_to_zenkakukana"
      [] at = "_hankakukana_to_zenkakukana" ->
             IF kind = "story" THEN "_ensure_story_linebreaks" ELSE "_auto_join_line"
      [] at = "_ensure_story_linebreaks" -> "_auto_join_line"
      [] at = "_auto_join_line" -> "replace_kaipage"
      [] at = "replace_kaipage" -> "sub_kbr"
      [] at = "sub_kbr" -> "sub_pbr"
      [] at = "sub_pbr" -> "_stash_urls"
      [] at = "_stash_urls" -> "_stash_english_sentences"
      [] at = "_stash_english_sentences" -> "_stash_kome"
      [] at = "_stash_kome" -> "_symbols_to_zenkaku"
      [] at = "_symbols_to_zenkaku" -> "_convert_numbers"
      [] at = "_convert_numbers" ->
             IF kind \notin VerticalKinds THEN "_exception_reconvert_kanji_to_num"
             ELSE "_insert_separate_space"
      [] at = "_exception_reconvert_kanji_to_num" -> "_insert_separate_space"
      [] at = "_insert_separate_space" -> "_convert_tatechuyoko"
      [] at = "_convert_tatechuyoko" -> "_convert_novel_rule"
      [] at = "_convert_novel_rule" -> "_convert_horizontal_ellipsis"
      [] at = "_convert_horizontal_ellipsis" -> "_restore_explicit_ruby"
      [] at = "_restore_explicit_ruby" -> "_replace_tatesen"
      [] at = "_replace_tatesen" -> "_convert_double_angle_quotation_to_gaiji"
      [] at = "_convert_double_angle_quotation_to_gaiji" -> "_rebuild_english_sentences"
      [] at = "_rebuild_english_sentences" -> "_rebuild_hankaku_num_and_comma"
      [] at = "_rebuild_hankaku_num_and_comma" -> "_rebuild_urls"
      [] at = "_rebuild_urls" -> "_rebuild_kome_to_gaiji"
      [] at = "_rebuild_kome_to_gaiji" -> "sub_zsp"
      [] at = "sub_zsp" ->
             IF kind \in LayoutKinds THEN "_half_indent_bracket"
             ELSE IF kind \in PackOnlyKinds THEN "_pack_blank_lines"
             ELSE "sub_line_ends"
      [] at = "_half_indent_bracket" -> "_pack_blank_lines"
      [] at = "_pack_blank_lines" ->
             IF kind \in LayoutKinds THEN "_convert_tatechuyoko_2" ELSE "sub_line_ends"
      [] at = "_convert_tatechuyoko_2" -> "sub_line_ends"
      [] at = "sub_line_ends" -> "sub_end"
      [] at = "sub_end" -> "return"

\* No span of the fragment was stashed from lines that value does not hold.
NoEarlier == [urls |-> 0, english_sentences |-> 0, num_and_comma |-> 0]

\* Call c runs the statement  text, table = f(text)  at label at; chr raised in
\* it (r.raised) or it returned r.text.
StashStatement(c, at, r) ==
    /\ pc[c] = at
    /\ pc' = [pc EXCEPT ![c] = IF r.raised THEN "raised"
                               ELSE NextStatement(at, text_type[c])]
    /\ text' = [text EXCEPT ![c] = IF r.raised THEN @ ELSE r.text]
    /\ raised' = [raised EXCEPT ![c] = r.raised]
    /\ ran' = [ran EXCEPT ![c] = @ \cup {at}
                   \cup (IF at = "_convert_numbers" /\ r.vertical
                         THEN {"_hankaku_num_to_zenkaku_num"} ELSE {})]

\* Call c runs the statement  text = f(text)  at label at.
Statement(c, at, t) ==
    /\ pc[c] = at
    /\ pc' = [pc EXCEPT ![c] = NextStatement(at, text_type[c])]
    /\ text' = [text EXCEPT ![c] = t]
    /\ ran' = [ran EXCEPT ![c] = @ \cup {at}]

\* lines 405-406: if not value: return ''
Enter(c) ==
    /\ pc[c] = "call"
    /\ IF value[c] = <<>>
       THEN /\ pc' = [pc EXCEPT ![c] = "done"]
            /\ returned' = [returned EXCEPT ![c] = Append(@, <<>>)]
       ELSE /\ pc' = [pc EXCEPT ![c] = "_html_to_aozora"]
            /\ UNCHANGED returned
    /\ UNCHANGED <<Outside, previous, Args, text, Locals, ran, raised, PackLocals>>

HtmlToAozora(c) ==
    /\ Statement(c, "_html_to_aozora",
                 _html_to_aozora(value[c], PreHtml(value[c], text_type[c])))
    /\ UNCHANGED <<Outside, previous, Args, Locals, raised, returned, PackLocals>>

HankakukanaToZenkakukana(c) ==
    /\ Statement(c, "_hankakukana_to_zenkakukana", _hankakukana_to_zenkakukana(text[c]))
    /\ UNCHANGED <<Outside, previous, Args, Locals, raised, returned, PackLocals>>

EnsureStoryLinebreaks(c) ==
    /\ Statement(c, "_ensure_story_linebreaks", _ensure_story_linebreaks(text[c]))
    /\ UNCHANGED <<Outside, previous, Args, Locals, raised, returned, PackLocals>>

AutoJoinLine(c) ==
    /\ Statement(c, "_auto_join_line", _auto_join_line(text[c]))
    /\ UNCHANGED <<Outside, previous, Args, Locals, raised, returned, PackLocals>>

ReplaceKaiPage(c) ==
    /\ Statement(c, "replace_kaipage", RemoveKaiPage(text[c]))
    /\ UNCHANGED <<Outside, previous, Args, Locals, raised, returned, PackLocals>>

SubKbr(c) ==
    /\ Statement(c, "sub_kbr", KbrToNewline(text[c]))
    /\ UNCHANGED <<Outside, previous, Args, Locals, raised, returned, PackLocals>>

SubPbr(c) ==
    /\ Statement(c, "sub_pbr", PbrToNewline(text[c]))
    /\ UNCHANGED <<Outside, previous, Args, Locals, raised, returned, PackLocals>>

StashUrls(c) ==
    LET r == StashUrlsFrom(text[c], 1, <<>>, <<>>, earlier[c].urls) IN
    /\ StashStatement(c, "_stash_urls", r)
    /\ urls' = [urls EXCEPT ![Frame(c)] = r.table]
    /\ UNCHANGED <<Outside, previous, Args, english_sentences, num_and_comma, returned, PackLocals>>

StashEnglishSentences(c) ==
    LET r == StashEnglishFrom(text[c], 1, <<>>, <<>>, earlier[c].english_sentences) IN
    /\ StashStatement(c, "_stash_english_sentences", r)
    /\ english_sentences' = [english_sentences EXCEPT ![Frame(c)] = r.table]
    /\ UNCHANGED <<Outside, previous, Args, urls, num_and_comma, returned, PackLocals>>

StashKome(c) ==
    /\ Statement(c, "_stash_kome", _stash_kome(text[c]))
    /\ UNCHANGED <<Outside, previous, Args, Locals, raised, returned, PackLocals>>

SymbolsToZenkaku(c) ==
    /\ Statement(c, "_symbols_to_zenkaku", _symbols_to_zenkaku(text[c]))
    /\ UNCHANGED <<Outside, previous, Args, Locals, raised, returned, PackLocals>>

ConvertNumbers(c) ==
    LET r == ConvertNumbersAfter(text[c], text_type[c], earlier[c].num_and_comma) IN
    /\ StashStatement(c, "_convert_numbers", r)
    /\ num_and_comma' = [num_and_comma EXCEPT ![Frame(c)] = r.table]
    /\ UNCHANGED <<Outside, previous, Args, urls, english_sentences, returned, PackLocals>>

ExceptionReconvertKanjiToNum(c) ==
    /\ Statement(c, "_exception_reconvert_kanji_to_num",
                 _exception_reconvert_kanji_to_num(text[c]))
    /\ UNCHANGED <<Outside, previous, Args, Locals, raised, returned, PackLocals>>

InsertSeparateSpace(c) ==
    /\ Statement(c, "_insert_separate_space", _insert_separate_space(text[c]))
    /\ UNCHANGED <<Outside, previous, Args, Locals, raised, returned, PackLocals>>

ConvertTatechuyoko(c) ==
    /\ Statement(c, "_convert_tatechuyoko", _convert_tatechuyoko(text[c]))
    /\ UNCHANGED <<Outside, previous, Args, Locals, raised, returned, PackLocals>>

ConvertNovelRule(c) ==
    /\ Statement(c, "_convert_novel_rule", _convert_novel_rule(text[c]))
    /\ UNCHANGED <<Outside, previous, Args, Locals, raised, returned, PackLocals>>

ConvertHorizontalEllipsis(c) ==
    /\ Statement(c, "_convert_horizontal_ellipsis", _convert_horizontal_ellipsis(text[c]))
    /\ UNCHANGED <<Outside, previous, Args, Locals, raised, returned, PackLocals>>

RestoreExplicitRuby(c) ==
    /\ Statement(c, "_restore_explicit_ruby", _restore_explicit_ruby(text[c]))
    /\ UNCHANGED <<Outside, previous, Args, Locals, raised, returned, PackLocals>>

ReplaceTatesen(c) ==
    /\ Statement(c, "_replace_tatesen", _replace_tatesen(text[c]))
    /\ UNCHANGED <<Outside, previous, Args, Locals, raised, returned, PackLocals>>

ConvertDoubleAngleQuotationToGaiji(c) ==
    /\ Statement(c, "_convert_double_angle_quotation_to_gaiji",
                 _convert_double_angle_quotation_to_gaiji(text[c]))
    /\ UNCHANGED <<Outside, previous, Args, Locals, raised, returned, PackLocals>>

RebuildEnglishSentences(c) ==
    /\ Statement(c, "_rebuild_english_sentences",
                 RebuildEnglishAfter(text[c], english_sentences[Frame(c)],
                                     earlier[c].english_sentences))
    /\ UNCHANGED <<Outside, previous, Args, Locals, raised, returned, PackLocals>>

RebuildHankakuNumAndComma(c) ==
    /\ Statement(c, "_rebuild_hankaku_num_and_comma",
                 RebuildNumsAfter(text[c], num_and_comma[Frame(c)],
                                  earlier[c].num_and_comma))
    /\ UNCHANGED <<Outside, previous, Args, Locals, raised, returned, PackLocals>>

RebuildUrls(c) ==
    /\ Statement(c, "_rebuild_urls",
                 RebuildUrlsAfter(text[c], urls[Frame(c)], earlier[c].urls))
    /\ UNCHANGED <<Outside, previous, Args, Locals, raised, returned, PackLocals>>

RebuildKomeToGaiji(c) ==
    /\ Statement(c, "_rebuild_kome_to_gaiji", _rebuild_kome_to_gaiji(text[c]))
    /\ UNCHANGED <<Outside, previous, Args, Locals, raised, returned, PackLocals>>

SubZsp(c) ==
    /\ Statement(c, "sub_zsp", CollapseZsp(text[c]))
    /\ UNCHANGED <<Outside, previous, Args, Locals, raised, returned, PackLocals>>

HalfIndentBracket(c) ==
    /\ Statement(c, "_half_indent_bracket", _half_indent_bracket(text[c]))
    /\ UNCHANGED <<Outside, previous, Args, Locals, raised, returned, PackLocals>>

\* lines 437 and 440; an exception that escapes _pack_blank_lines ends the call.
PackBlankLines(c) ==
    LET r == PackResult(text[c]) IN
    /\ pc[c] = "_pack_blank_lines"
    /\ pc' = [pc EXCEPT ![c] = IF r.raised THEN "raised"
                               ELSE NextStatement("_pack_blank_lines", text_type[c])]
    /\ text' = [text EXCEPT ![c] = IF r.raised THEN @ ELSE r.result]
    /\ raised' = [raised EXCEPT ![c] = r.raised]
    /\ ran' = [ran EXCEPT ![c] = @ \cup {"_pack_blank_lines"}]
    /\ UNCHANGED <<Outside, previous, Args, Locals, returned, PackLocals>>

ConvertTatechuyokoAgain(c) ==
    /\ Statement(c, "_convert_tatechuyoko_2", _convert_tatechuyoko(text[c]))
    /\ UNCHANGED <<Outside, previous, Args, Locals, raised, returned, PackLocals>>

SubLineEnds(c) ==
    /\ Statement(c, "sub_line_ends", TrimLineEnds(text[c]))
    /\ UNCHANGED <<Outside, previous, Args, Locals, raised, returned, PackLocals>>

SubEnd(c) ==
    /\ Statement(c, "sub_end", TrimEnd(text[c]))
    /\ UNCHANGED <<Outside, previous, Args, Locals, raised, returned, PackLocals>>

\* line 443: return text
Return(c) ==
    /\ pc[c] = "return"
    /\ pc' = [pc EXCEPT ![c] = "done"]
    /\ returned' = [returned EXCEPT ![c] = Append(@, text[c])]
    /\ UNCHANGED <<Outside, previous, Args, text, Locals, ran, raised, PackLocals>>

\* The caller makes the same call again: new locals, the same arguments.
CallAgain(c) ==
    /\ pc[c] = "done"
    /\ Len(returned[c]) < MaxCalls
    /\ pc' = [pc EXCEPT ![c] = "call"]
    /\ text' = [text EXCEPT ![c] = <<>>]
    /\ ran' = [ran EXCEPT ![c] = {}]
    /\ urls' = [urls EXCEPT ![Frame(c)] = <<>>]
    /\ english_sentences' = [english_sentences EXCEPT ![Frame(c)] = <<>>]
    /\ num_and_comma' = [num_and_comma EXCEPT ![Frame(c)] = <<>>]
    /\ UNCHANGED <<Outside, previous, Args, raised, returned, PackLocals>>

----------------------------------------------------------------------------
(* One call on every input built from a few pieces *)

MaxPieces == 3

Pieces ==
    { <<J1>>,                                             \* Japanese text
      <<"<", "b", "r", ">">>,                             \* a line break
      <<ZSP>>,                                            \* a full-width space
      <<"a", SP, "b", SP>>,                               \* an English run, a space after it
      <<"h", "t", "t", "p", ":", "/", "/", "a">>,         \* a URL
      <<"1", ",", "0", J1>> }                             \* a comma-grouped number

Inputs == {Flatten(ps) : ps \in UNION {[1..k -> Pieces] : k \in 0..MaxPieces}}

\* What no call has touched yet.
Fresh ==
    /\ text = [c \in Calls |-> <<>>]
    /\ urls = [f \in Calls |-> <<>>]
    /\ english_sentences = [f \in Calls |-> <<>>]
    /\ num_and_comma = [f \in Calls |-> <<>>]
    /\ ran = [c \in Calls |-> {}]
    /\ raised = [c \in Calls |-> FALSE]
    /\ returned = [c \in Calls |-> <<>>]
    /\ lines = <<>>
    /\ line_no = 0
    /\ packed = <<>>
    /\ blank_run = 0
    /\ prev_border = FALSE
    /\ previous = None

Init ==
    /\ OutsideIdle
    /\ pc = [c \in Calls |-> IF c = 1 THEN "call" ELSE "idle"]
    /\ \E v \in Inputs, k \in Kinds :
          /\ value = [c \in Calls |-> IF c = 1 THEN v ELSE <<>>]
          /\ text_type = [c \in Calls |-> k]
    /\ earlier = [c \in Calls |-> NoEarlier]
    /\ Fresh

Next ==
    \E c \in Calls :
        \/ Enter(c)
        \/ HtmlToAozora(c)
        \/ HankakukanaToZenkakukana(c)
        \/ EnsureStoryLinebreaks(c)
        \/ AutoJoinLine(c)
        \/ ReplaceKaiPage(c)
        \/ SubKbr(c)
        \/ SubPbr(c)
        \/ StashUrls(c)
        \/ StashEnglishSentences(c)
        \/ StashKome(c)
        \/ SymbolsToZenkaku(c)
        \/ ConvertNumbers(c)
        \/ ExceptionReconvertKanjiToNum(c)
        \/ InsertSeparateSpace(c)
        \/ ConvertTatechuyoko(c)
        \/ ConvertNovelRule(c)
        \/ ConvertHorizontalEllipsis(c)
        \/ RestoreExplicitRuby(c)
        \/ ReplaceTatesen(c)
        \/ ConvertDoubleAngleQuotationToGaiji(c)
        \/ RebuildEnglishSentences(c)
        \/ RebuildHankakuNumAndComma(c)
        \/ RebuildUrls(c)
        \/ RebuildKomeToGaiji(c)
        \/ SubZsp(c)
        \/ HalfIndentBracket(c)
        \/ PackBlankLines(c)
        \/ ConvertTatechuyokoAgain(c)
        \/ SubLineEnds(c)
        \/ SubEnd(c)
        \/ Return(c)

Spec == Init /\ [][Next]_vars

----------------------------------------------------------------------------
(* The final output: what is trimmed and what is not *)

\* Every string call c has returned.
Outputs(c) == {returned[c][i] : i \in 1..Len(returned[c])}

EndsWithWhitespace(t) == t # <<>> /\ t[Len(t)] \in {SP, TAB, ZSP, NL}
BeginsWithWhitespace(t) == t # <<>> /\ t[1] \in {SP, TAB, ZSP, NL, CR}
SomeLineEndsBlank(t) == \E i \in 1..(Len(t) - 1) : t[i] \in {SP, TAB, ZSP} /\ t[i + 1] = NL

\* C4: for every input and every text kind, the returned string does not end
\* with a blank line or with a space, tab, full-width space or newline, and no
\* line of it ends with a space, tab or full-width space.
C4_NoTrailingWhitespace ==
    \A c \in Calls : \A out \in Outputs(c) :
        ~EndsWithWhitespace(out) /\ ~SomeLineEndsBlank(out)

\* A call whose input ends with a space, a line break and a full-width space has
\* returned, and what it returned is the English run alone.
C4_Witness ==
    /\ pc[1] = "done"
    /\ value[1] = <<"a", SP, "b", SP, "<", "b", "r", ">", ZSP>>
    /\ returned[1] = << <<"a", SP, "b">> >>

\* C5 as the specification states it: the returned string never begins with a
\* newline, a full-width space or any other whitespace character.
C5_NoLeadingWhitespace ==
    \A c \in Calls : \A out \in Outputs(c) : ~BeginsWithWhitespace(out)

\* C5, amended: the final trims (lines 441-442) remove whitespace at the ends of
\* lines and at the end of the text only; a text that reaches them beginning
\* with whitespace still begins with whitespace after each of them, unless
\* nothing of it is left.
C5_LeadingWhitespaceKept ==
    [][\A c \in Calls :
          (pc[c] \in {"sub_line_ends", "sub_end"} /\ pc'[c] # pc[c])
              => (BeginsWithWhitespace(text'[c])
                     <=> (BeginsWithWhitespace(text[c]) /\ text'[c] # <<>>))]_vars

\* A title that begins with a full-width space was returned beginning with it.
C5_Witness ==
    /\ pc[1] = "done"
    /\ text_type[1] = "title"
    /\ value[1] = <<ZSP, J1>>
    /\ returned[1] = << <<ZSP, J1>> >>

----------------------------------------------------------------------------
(* Protected spans through the whole pipeline *)

\* The placeholder characters: the sentinels U+E000..U+E006 and the index
\* characters of the first entries of each list.
SentinelChars ==
    {Chr(n) : n \in 57344..57350}
        \cup {Chr(b + i) : b \in {_URL_SENTINEL_BASE, _ENGLISH_SENTINEL_BASE,
                                   _NUM_SENTINEL_BASE}, i \in 0..(MaxPieces + 1)}

\* The items stand in t from position from on, one after the other, in their order.
RECURSIVE InOrder(_, _, _)
InOrder(t, from, items) ==
    IF items = <<>> THEN TRUE
    ELSE \E p \in from..(Len(t) + 1) :
            /\ StartsWithAt(t, p, Head(items))
            /\ InOrder(t, p + Len(Head(items)), Tail(items))

Anchors(c) == [i \in 1..Len(urls[c]) |-> Anchor(urls[c][i])]

\* C6: the string a call returns holds every span the call stashed, character
\* for character and in the order of the input (a URL inside its anchor tag, a
\* grouped number with half-width commas), and no placeholder character.
C6_RoundTripVerbatim ==
    \A c \in Calls : pc[c] = "done" =>
        /\ Range(text[c]) \cap SentinelChars = {}
        /\ InOrder(text[c], 1, Anchors(c))
        /\ InOrder(text[c], 1, english_sentences[c])
        /\ InOrder(text[c], 1, num_and_comma[c])

----------------------------------------------------------------------------
(* Failure, and the stages each text kind runs *)

\* C7: no call raises, for any input and any text kind: every call that has
\* ended has returned a string, and _pack_blank_lines never reads packed[-1]
\* while packed is empty.
C7_NoFailure ==
    \A c \in Calls :
        /\ ~raised[c]
        /\ pc[c] # "raised"
        /\ pc[c] = "done" => returned[c] # <<>>

\* C9: a call that ran to its return statement has run _half_indent_bracket
\* exactly if the kind is body or textfile, _pack_blank_lines exactly if it is
\* body, textfile, introduction or postscript, the unit-exception reconversion
\* exactly if it is not subtitle, chapter or story, and the vertical-mixed
\* digit path exactly if it is subtitle, chapter or story.
C9_KindSelectsStages ==
    \A c \in Calls : pc[c] \in {"return", "done"} /\ value[c] # <<>> =>
        /\ "_half_indent_bracket" \in ran[c] <=> text_type[c] \in {"body", "textfile"}
        /\ "_pack_blank_lines" \in ran[c]
               <=> text_type[c] \in {"body", "textfile", "introduction", "postscript"}
        /\ "_convert_tatechuyoko_2" \in ran[c] <=> text_type[c] \in {"body", "textfile"}
        /\ "_exception_reconvert_kanji_to_num" \in ran[c]
               <=> text_type[c] \notin {"subtitle", "chapter", "story"}
        /\ "_hankaku_num_to_zenkaku_num" \in ran[c]
               <=> text_type[c] \in {"subtitle", "chapter", "story"}

\* An introduction was returned after packing without the bracket indent, and
\* after the unit-exception reconversion.
C9_Witness ==
    /\ pc[1] = "done"
    /\ text_type[1] = "introduction"
    /\ "_pack_blank_lines" \in ran[1]
    /\ "_half_indent_bracket" \notin ran[1]
    /\ "_exception_reconvert_kanji_to_num" \in ran[1]
    /\ "_hankaku_num_to_zenkaku_num" \notin ran[1]

----------------------------------------------------------------------------
(* One call on a long fragment: many protected spans, one on each line *)

\* A long fragment is a line with a URL (http://a<br>) as often as
\* earlier.urls says, then a line with an English run (a b<br>) as often as
\* earlier.english_sentences says, then a line with a grouped number (1,0<br>)
\* as often as earlier.num_and_comma says, and then the lines of value.  The
\* state holds the last lines only, and of each list the entries stashed from
\* them: the stages rewrite a line from the line itself, and entry k of a list
\* is restored from the placeholder with the character chr(BASE + k) alone.

MaxLongLines == 2

LongLines ==
    { <<J1>>,                                             \* Japanese text
      <<"h", "t", "t", "p", ":", "/", "/", "a">>,         \* a URL
      <<"a", SP, "b">>,                                   \* an English run
      <<"1", ",", "0">> }                                 \* a comma-grouped number

LastLines ==
    {Flatten([i \in DOMAIN ls |-> ls[i] \o <<"<", "b", "r", ">">>]) :
        ls \in UNION {[1..k -> LongLines] : k \in 1..MaxLongLines}}

\* How many spans the earlier lines held: none; as many as bring the index
\* character to U+FF01 and (URLs) to U+FF10; as many as leave no code point
\* below 0x110000 for the next index character.
EarlierUrls ==
    {0, 65281 - _URL_SENTINEL_BASE, 65296 - _URL_SENTINEL_BASE,
     1114112 - _URL_SENTINEL_BASE}
EarlierEnglish == {0, 65281 - _ENGLISH_SENTINEL_BASE}
EarlierNums == {0, 65281 - _NUM_SENTINEL_BASE}

\* subtitle is left out: its digit normalizer looks at the start of the text
\* (match.start() == 0), which the last lines do not hold.  For chapter and
\* story no grouped number is stashed, whatever the earlier lines held.
InitLong ==
    /\ OutsideIdle
    /\ pc = [c \in Calls |-> IF c = 1 THEN "call" ELSE "idle"]
    /\ \E v \in LastLines, k \in Kinds \ {"subtitle"},
          u \in EarlierUrls, e \in EarlierEnglish, n \in EarlierNums :
          /\ k \in VerticalKinds => n = 0
          /\ value = [c \in Calls |-> IF c = 1 THEN v ELSE <<>>]
          /\ text_type = [c \in Calls |-> k]
          /\ earlier = [c \in Calls |->
                           IF c = 1 THEN [urls |-> u, english_sentences |-> e,
                                          num_and_comma |-> n]
                           ELSE NoEarlier]
    /\ Fresh

SpecLong == InitLong /\ [][Next]_vars

\* The grouped number of the last line is entry 7169 of num_and_comma, with the
\* index character U+FF01: _insert_separate_space put a full-width space after
\* it, the restore did not find the placeholder, and the body was returned
\* with the placeholder in the place of the number.
C6_PlaceholderReturned ==
    /\ pc[1] = "done"
    /\ text_type[1] = "body"
    /\ value[1] = <<"1", ",", "0", "<", "b", "r", ">">>
    /\ earlier[1] = [urls |-> 0, english_sentences |-> 0,
                     num_and_comma |-> 65281 - _NUM_SENTINEL_BASE]
    /\ num_and_comma[1] = << <<"1", ",", "0">> >>
    /\ returned[1] = << <<_NUM_SENTINEL_OPEN, Zen("!"), ZSP, _NUM_SENTINEL_CLOSE>> >>

\* The URL of the last line is entry 1056512 of urls: chr raised in repl of
\* _stash_urls, and the call returned nothing.
C7_ChrRaised ==
    /\ pc[1] = "raised"
    /\ raised[1]
    /\ value[1] = <<"h", "t", "t", "p", ":", "/", "/", "a", "<", "b", "r", ">">>
    /\ earlier[1].urls = 1114112 - _URL_SENTINEL_BASE
    /\ ran[1] = {"_html_to_aozora", "_hankakukana_to_zenkakukana", "_auto_join_line",
                 "replace_kaipage", "sub_kbr", "sub_pbr", "_stash_urls"}
    /\ returned[1] = <<>>

----------------------------------------------------------------------------
(* _pack_blank_lines on its own, one action per iteration of its loop *)

MaxPackLines == 3       \* non-blank lines of a text
MaxBlankRun == 10       \* blank lines between the first two of them
ShortRun == 2           \* blank lines after the second line
LeadRun == 4            \* blank lines before the first line
TailRun == 1            \* blank lines after the last line

LineForms ==
    { <<J1, SP>>,                                         \* an ordinary line
      <<SP, "*", Zen("*"), "*", "*", "*", ZSP>>,          \* a border line of stars
      <<"DIA_B">>,                                        \* a decorative border line
      <<Zen("!"), RKAGI>> }                               \* a line that begins ！」

\* n whitespace-only lines: empty ones and ones of a full-width space and a tab.
BlankLines(n) == [i \in 1..n |-> IF i % 2 = 1 THEN <<>> ELSE <<ZSP, TAB>>]

\* The lines form[1..k], with run[i] blank lines after the i-th (run[0]: before the first).
RECURSIVE Assemble(_, _, _)
Assemble(form, run, k) ==
    IF k = 0 THEN BlankLines(run[0])
    ELSE Assemble(form, run, k - 1) \o <<form[k]>> \o BlankLines(run[k])

RunChoices(k) ==
    {run \in [0..k -> 0..MaxBlankRun] :
        \A i \in 0..k : /\ i = 0 => run[i] <= LeadRun
                        /\ (i > 1 \/ (i = 1 /\ k = 1)) => run[i] <= ShortRun
                        /\ i = k => run[i] <= TailRun}

PackInputs ==
    UNION {{JoinLines(Assemble(form, run, k)) : form \in [1..k -> LineForms], run \in RunChoices(k)}
              : k \in 0..MaxPackLines}

InitPack ==
    /\ OutsideIdle
    /\ pc = [c \in Calls |-> IF c = 1 THEN "pack_call" ELSE "idle"]
    /\ value = [c \in Calls |-> <<>>]
    /\ text_type = [c \in Calls |-> "body"]
    /\ earlier = [c \in Calls |-> NoEarlier]
    /\ \E x \in PackInputs :
          /\ text = [c \in Calls |-> IF c = 1 THEN x ELSE <<>>]
          /\ urls = [f \in Calls |-> <<>>]
          /\ english_sentences = [f \in Calls |-> <<>>]
          /\ num_and_comma = [f \in Calls |-> <<>>]
          /\ ran = [c \in Calls |-> {}]
          /\ raised = [c \in Calls |-> FALSE]
          /\ returned = [c \in Calls |-> <<>>]
          /\ lines = <<>>
          /\ line_no = 0
          /\ packed = <<>>
          /\ blank_run = 0
          /\ prev_border = FALSE
          /\ previous = None

\* lines 288-291
PackEnter ==
    /\ pc[1] = "pack_call"
    /\ pc' = [pc EXCEPT ![1] = "pack_loop"]
    /\ lines' = SplitLines(text[1])
    /\ line_no' = 0
    /\ packed' = <<>>
    /\ blank_run' = 0
    /\ prev_border' = FALSE
    /\ UNCHANGED <<Outside, previous, Args, text, Locals, ran, raised, returned>>

\* lines 300-328: the loop body on the next line
PackIterate ==
    /\ pc[1] = "pack_loop"
    /\ line_no < Len(lines)
    /\ LET st == PackLine([packed |-> packed, blank_run |-> blank_run,
                           prev_border |-> prev_border, raised |-> FALSE],
                          lines[line_no + 1])
       IN /\ packed' = st.packed
          /\ blank_run' = st.blank_run
          /\ prev_border' = st.prev_border
          /\ raised' = [raised EXCEPT ![1] = st.raised]
          /\ pc' = [pc EXCEPT ![1] = IF st.raised THEN "raised" ELSE "pack_loop"]
    /\ line_no' = line_no + 1
    /\ UNCHANGED <<Outside, previous, Args, text, Locals, ran, returned, lines>>

\* lines 329-334
PackFinish ==
    /\ pc[1] = "pack_loop"
    /\ line_no = Len(lines)
    /\ pc' = [pc EXCEPT ![1] = "pack_done"]
    /\ returned' = [returned EXCEPT ![1] = Append(@, PackReturnValue(packed))]
    /\ UNCHANGED <<Outside, previous, Args, text, Locals, ran, raised, PackLocals>>

\* _pack_blank_lines called on what it returned
PackAgain ==
    /\ pc[1] = "pack_done"
    /\ pc' = [pc EXCEPT ![1] = "pack_twice"]
    /\ returned' = [returned EXCEPT ![1] = Append(@, _pack_blank_lines(returned[1][1]))]
    /\ UNCHANGED <<Outside, previous, Args, text, Locals, ran, raised, PackLocals>>

NextPack == PackEnter \/ PackIterate \/ PackFinish \/ PackAgain

SpecPack == InitPack /\ [][NextPack]_vars

----------------------------------------------------------------------------
(* What _pack_blank_lines does to blank runs and border lines *)

IsBlankLine(l) == Strip(l, {SP, ZSP, TAB}) = <<>>
IsBorderLine(l) ==
    LET t == Strip(l, {SP, ZSP, TAB}) IN
    /\ t # <<>>
    /\ \/ Len(t) >= 5 /\ Range(t) \subseteq {"*", Zen("*")}
       \/ Range(t) \subseteq {"DIA_B", "DIA_W", "SQ_B", "SQ_W", "CIR_B", "CIR_W", "STAR_B", "STAR_W"}
IsOrdinaryLine(l) == ~IsBlankLine(l) /\ ~IsBorderLine(l)
BeginsClosingQuote(l) ==
    StartsWithAt(l, 1, <<Zen("!"), RKAGI>>) \/ StartsWithAt(l, 1, <<Zen("?"), RKAGI>>)

\* The text the call would return if its loop ended now, and after the step.
Packed == PackReturnValue(packed)
PackedAfter == PackReturnValue(packed')
Newlines(n) == [i \in 1..n |-> NL]

\* No two ordinary lines of ls have two or more blank lines, and nothing else,
\* between them.
NoWideGap(ls) ==
    \A i, j \in 1..Len(ls) :
        (/\ i + 2 < j
         /\ IsOrdinaryLine(ls[i]) /\ IsOrdinaryLine(ls[j])
         /\ \A k \in (i + 1)..(j - 1) : IsBlankLine(ls[k])) => FALSE

\* C1 as the specification states it: packing what _pack_blank_lines returned
\* returns it unchanged, for every text.
C1_Idempotent ==
    pc[1] = "pack_twice" => returned[1][2] = returned[1][1]

\* C1, amended: packing what _pack_blank_lines returned returns it unchanged for
\* every text in which no two ordinary lines are separated by two or more blank
\* lines alone and no line begins with ！」 or ？」.
C1_IdempotentWithoutWideGaps ==
    (/\ pc[1] = "pack_twice"
     /\ NoWideGap(lines)
     /\ \A i \in 1..Len(lines) : ~BeginsClosingQuote(lines[i]))
        => returned[1][2] = returned[1][1]

\* A text of a line, three blank lines, a border line, one blank line and a line
\* was packed twice, to the same text with one blank line around the border.
C1_Witness ==
    /\ pc[1] = "pack_twice"
    /\ lines = <<<<J1, SP>>, <<>>, <<ZSP, TAB>>, <<>>, <<"DIA_B">>, <<>>, <<J1, SP>>>>
    /\ returned[1][1] = <<J1, NL, NL, ZSP, ZSP, ZSP, ZSP, "DIA_B", NL, NL, J1>>
    /\ returned[1][2] = returned[1][1]

\* The blank lines the specification's table gives a run of n between ordinary lines.
BlankLinesBetween(n) ==
    IF n <= 1 THEN 0 ELSE IF n <= 3 THEN 1 ELSE IF n <= 7 THEN 2 ELSE IF n <= 9 THEN 3 ELSE 4

\* The loop takes an ordinary line, after an ordinary line and blank_run blank lines.
OrdinaryAfterOrdinary ==
    /\ pc[1] = "pack_loop" /\ line_no' = line_no + 1
    /\ IsOrdinaryLine(lines[line_no'])
    /\ packed # <<>> /\ ~prev_border

\* C2 as the specification states it: a run of n blank lines between two
\* ordinary lines leaves 0 blank lines for n <= 1, 1 for n in 2..3, 2 for n in
\* 4..7, 3 for n in 8..9 and 4 for n >= 10, and the later line follows without
\* its trailing spaces, tabs and full-width spaces.
C2_BlankRunTable ==
    [][OrdinaryAfterOrdinary =>
          PackedAfter = Packed \o Newlines(BlankLinesBetween(blank_run) + 1)
                               \o RStrip(lines[line_no'], {SP, ZSP, TAB})]_vars

\* C2, amended: the table holds when the later line does not begin with ！」 or
\* ？」; when it does, the line break directly before it is removed, so it
\* follows one line break earlier.
C2_BlankRunTableUpToJoin ==
    [][OrdinaryAfterOrdinary =>
          PackedAfter = Packed
              \o Newlines(BlankLinesBetween(blank_run)
                          + (IF BeginsClosingQuote(lines[line_no']) THEN 0 ELSE 1))
              \o RStrip(lines[line_no'], {SP, ZSP, TAB})]_vars

\* The loop has taken an ordinary line after an ordinary line and ten blank
\* lines, and four blank lines stand between the two in packed.
C2_Witness ==
    /\ pc[1] = "pack_loop"
    /\ line_no = 12
    /\ lines[1] = <<J1, SP>> /\ lines[12] = <<J1, SP>>
    /\ \A i \in 2..11 : IsBlankLine(lines[i])
    /\ packed = <<<<J1>>, <<>>, <<>>, <<>>, <<>>, <<J1>>>>

\* A border line as it is emitted.
Emitted(l) ==
    <<ZSP, ZSP, ZSP, ZSP>> \o Translate(Strip(l, {SP, ZSP, TAB}), <<"*">>, <<Zen("*")>>)
BlankLinesAtBorder(n) == IF n \in {1, 3} THEN 1 ELSE 2

\* The loop takes a border line.
BorderStep ==
    /\ pc[1] = "pack_loop" /\ line_no' = line_no + 1
    /\ IsBorderLine(lines[line_no'])

\* What a border line adds: itself, after one blank line at least when a line
\* was emitted before it, after 1 or 2 blank lines when a blank run precedes it.
BorderEmitted ==
    PackedAfter =
        IF packed = <<>>
        THEN Newlines(IF blank_run >= 1 THEN BlankLinesAtBorder(blank_run) ELSE 0)
                 \o Emitted(lines[line_no'])
        ELSE Packed
                 \o Newlines(1 + (IF blank_run >= 1 THEN BlankLinesAtBorder(blank_run) ELSE 1))
                 \o Emitted(lines[line_no'])

\* The loop takes an ordinary line, after a border line and a blank run.
OrdinaryAfterBorder ==
    /\ pc[1] = "pack_loop" /\ line_no' = line_no + 1
    /\ IsOrdinaryLine(lines[line_no'])
    /\ prev_border /\ blank_run >= 1

\* C3 as the specification states it: a border line is emitted as four
\* full-width spaces and the trimmed line with every * made ＊, after at least
\* one blank line when a line was emitted before it; a run of n >= 1 blank lines
\* directly before it or directly after it leaves 1 blank line for n in {1, 3}
\* and 2 for every other n.
C3_BorderLines ==
    [][/\ BorderStep => BorderEmitted
       /\ OrdinaryAfterBorder =>
              PackedAfter = Packed \o Newlines(BlankLinesAtBorder(blank_run) + 1)
                                   \o RStrip(lines[line_no'], {SP, ZSP, TAB})]_vars

\* C3, amended: as stated, but a run after the border line leaves one line
\* break fewer when the line that follows it begins with ！」 or ？」.
C3_BorderLinesUpToJoin ==
    [][/\ BorderStep => BorderEmitted
       /\ OrdinaryAfterBorder =>
              PackedAfter = Packed
                  \o Newlines(BlankLinesAtBorder(blank_run)
                              + (IF BeginsClosingQuote(lines[line_no']) THEN 0 ELSE 1))
                  \o RStrip(lines[line_no'], {SP, ZSP, TAB})]_vars

\* The loop has taken a line, three blank lines, a border line of stars, two
\* blank lines and a line: one blank line stands before the border, two after.
C3_Witness ==
    /\ pc[1] = "pack_loop"
    /\ line_no = 8
    /\ lines[1] = <<J1, SP>>
    /\ \A i \in 2..4 : IsBlankLine(lines[i])
    /\ lines[5] = <<SP, "*", Zen("*"), "*", "*", "*", ZSP>>
    /\ \A i \in 6..7 : IsBlankLine(lines[i])
    /\ lines[8] = <<J1, SP>>
    /\ packed = <<<<J1>>, <<>>,
                  <<ZSP, ZSP, ZSP, ZSP, Zen("*"), Zen("*"), Zen("*"), Zen("*"), Zen("*")>>,
                  <<>>, <<>>, <<J1>>>>

----------------------------------------------------------------------------
(* _convert_numbers on its own, and the restore of what it stashed *)

MaxNumberLen == 4

NumberChars == {"1", Zen("2"), ",", Zen(","), "a", ".", ARABIC3}
NumberTexts == UNION {[1..n -> NumberChars] : n \in 0..MaxNumberLen}

InitNumbers ==
    /\ OutsideIdle
    /\ pc = [c \in Calls |-> IF c = 1 THEN "numbers_call" ELSE "idle"]
    /\ \E t \in NumberTexts, k \in Kinds :
          /\ value = [c \in Calls |-> IF c = 1 THEN t ELSE <<>>]
          /\ text = [c \in Calls |-> IF c = 1 THEN t ELSE <<>>]
          /\ text_type = [c \in Calls |-> k]
    /\ earlier = [c \in Calls |-> NoEarlier]
    /\ urls = [f \in Calls |-> <<>>]
    /\ english_sentences = [f \in Calls |-> <<>>]
    /\ num_and_comma = [f \in Calls |-> <<>>]
    /\ ran = [c \in Calls |-> {}]
    /\ raised = [c \in Calls |-> FALSE]
    /\ returned = [c \in Calls |-> <<>>]
    /\ lines = <<>>
    /\ line_no = 0
    /\ packed = <<>>
    /\ blank_run = 0
    /\ prev_border = FALSE
    /\ previous = None

\* text, num_and_comma = self._convert_numbers(text, text_type=text_type)
NumbersCall ==
    LET r == _convert_numbers(text[1], text_type[1]) IN
    /\ pc[1] = "numbers_call"
    /\ pc' = [pc EXCEPT ![1] = "numbers_rebuild"]
    /\ text' = [text EXCEPT ![1] = r.text]
    /\ num_and_comma' = [num_and_comma EXCEPT ![Frame(1)] = r.table]
    /\ UNCHANGED <<Outside, previous, Args, urls, english_sentences, ran, raised, returned, PackLocals>>

\* text = self._rebuild_hankaku_num_and_comma(text, num_and_comma)
NumbersRebuild ==
    /\ pc[1] = "numbers_rebuild"
    /\ pc' = [pc EXCEPT ![1] = "numbers_done"]
    /\ text' = [text EXCEPT ![1] =
                   _rebuild_hankaku_num_and_comma(text[1], num_and_comma[Frame(1)])]
    /\ UNCHANGED <<Outside, previous, Args, Locals, ran, raised, returned, PackLocals>>

\* cls._digits_to_kanji(text), called on the text as it is
DigitsToKanji ==
    /\ pc[1] = "numbers_call"
    /\ pc' = [pc EXCEPT ![1] = "digits_done"]
    /\ text' = [text EXCEPT ![1] = _digits_to_kanji(text[1])]
    /\ UNCHANGED <<Outside, previous, Args, Locals, ran, raised, returned, PackLocals>>

NextNumbers == NumbersCall \/ NumbersRebuild \/ DigitsToKanji

SpecNumbers == InitNumbers /\ [][NextNumbers]_vars

IsDigit(ch) == ch \in {"0", "1", "2", "3", "4", "5", "6", "7", "8", "9"}
                      \cup {Zen(d) : d \in {"0", "1", "2", "3", "4", "5", "6", "7", "8", "9"}}
IsComma(ch) == ch \in {",", Zen(",")}
KanjiOf(ch) ==
    CASE ch \in {"0", Zen("0")} -> "K0" [] ch \in {"1", Zen("1")} -> "K1"
      [] ch \in {"2", Zen("2")} -> "K2" [] ch \in {"3", Zen("3")} -> "K3"
      [] ch \in {"4", Zen("4")} -> "K4" [] ch \in {"5", Zen("5")} -> "K5"
      [] ch \in {"6", Zen("6")} -> "K6" [] ch \in {"7", Zen("7")} -> "K7"
      [] ch \in {"8", Zen("8")} -> "K8" [] ch \in {"9", Zen("9")} -> "K9"

\* The positions of the maximal run of digits and commas of t that holds p.
RunAt(t, p) ==
    {q \in 1..Len(t) :
        \A k \in (IF p < q THEN p ELSE q)..(IF p < q THEN q ELSE p) :
            IsDigit(t[k]) \/ IsComma(t[k])}
Grouped(t, p) ==
    /\ \E q \in RunAt(t, p) : IsDigit(t[q])
    /\ \E q \in RunAt(t, p) : IsComma(t[q])
CommasOnly(t, p) == RunAt(t, p) # {} /\ \A q \in RunAt(t, p) : IsComma(t[q])
GroupedRunStarts(t) == {p \in 1..Len(t) : Grouped(t, p) /\ (p - 1) \notin RunAt(t, p)}

\* What is said of the runs of value[1], read off the text after the restore.
RunsClassified ==
    /\ Len(text[1]) = Len(value[1])
    /\ Len(num_and_comma[1]) = Cardinality(GroupedRunStarts(value[1]))
    /\ \A p \in 1..Len(value[1]) :
          LET was == value[1][p]
              is == text[1][p]
          IN IF Grouped(value[1], p) THEN is = (IF IsComma(was) THEN "," ELSE was)
             ELSE IF CommasOnly(value[1], p) THEN is = was
             ELSE IF IsDigit(was) THEN is = KanjiOf(was)
             ELSE \/ is = was
                  \/ /\ was = "." /\ is = NAKATEN
                     /\ 1 < p /\ p < Len(value[1])
                     /\ value[1][p - 1] \in DigitClass /\ value[1][p + 1] \in DigitClass

\* What is said of _digits_to_kanji: digit by digit, length and order kept,
\* every other character left as it is.
DigitsMapped ==
    /\ Len(text[1]) = Len(value[1])
    /\ \A p \in 1..Len(value[1]) :
          text[1][p] = (IF IsDigit(value[1][p]) THEN KanjiOf(value[1][p]) ELSE value[1][p])

\* C10: for the kinds other than subtitle, chapter and story, every maximal run
\* of half- or full-width digits and commas is treated in one of three ways: a
\* run with a digit and a comma is stashed and comes back with its digits
\* unchanged and its commas half-width; a run of commas stays as it is; any
\* other run becomes kanji numerals digit by digit. _digits_to_kanji keeps
\* length and order and leaves every other character unchanged. (The decimal
\* point between two digits, which lines 184-188 turn into a middle dot, is
\* outside the runs and is not held against the claim.)
C10_NumberRuns ==
    /\ (pc[1] = "numbers_done" /\ text_type[1] \notin {"subtitle", "chapter", "story"})
           => RunsClassified
    /\ pc[1] = "digits_done" => DigitsMapped

\* C10, away from the digits of other scripts: the same statement for the texts
\* whose only digits are half-width and full-width.
C10_NumberRunsOfPlainDigits ==
    ARABIC3 \notin Range(value[1]) => C10_NumberRuns

\* A body text of commas alone after a digit of another script: _convert_numbers
\* stashed the two together and the full-width comma came back half-width.
C10_CommaRunRewritten ==
    /\ pc[1] = "numbers_done"
    /\ text_type[1] = "body"
    /\ value[1] = <<ARABIC3, Zen(",")>>
    /\ num_and_comma[1] = << <<ARABIC3, ",">> >>
    /\ text[1] = <<ARABIC3, ",">>

\* A body text of a grouped run with a full-width comma, a letter and a
\* full-width digit went through _convert_numbers and the restore.
C10_Witness ==
    /\ pc[1] = "numbers_done"
    /\ text_type[1] = "body"
    /\ value[1] = <<"1", Zen(","), "a", Zen("2")>>
    /\ num_and_comma[1] = << <<"1", ",">> >>
    /\ text[1] = <<"1", ",", "a", "K2">>

----------------------------------------------------------------------------
(* Two callers: calls interleaved at every statement, and made again *)

ConcurrentArgs ==
    { [value |-> <<"h", "t", "t", "p", ":", "/", "/", "a">>, text_type |-> "story"],
      [value |-> <<"a", SP, "b", J1, "1", ",", "0">>, text_type |-> "body"],
      [value |-> <<"c", SP, "d", SP, "<", "b", "r", ">", Zen("1"), Zen(","), "2">>,
       text_type |-> "postscript"] }

InitConcurrent ==
    /\ OutsideIdle
    /\ pc = [c \in Calls |-> "call"]
    /\ \E a \in [Calls -> ConcurrentArgs] :
          /\ value = [c \in Calls |-> a[c].value]
          /\ text_type = [c \in Calls |-> a[c].text_type]
    /\ earlier = [c \in Calls |-> NoEarlier]
    /\ Fresh

NextConcurrent == Next \/ \E c \in Calls : CallAgain(c)

SpecConcurrent == InitConcurrent /\ [][NextConcurrent]_vars

\* C8: whatever the interleaving of two calls, and however often a call is
\* made, every string a call returns is the one the call returns when it runs
\* alone from its arguments.
C8_CallsArePure ==
    \A c \in Calls : \A out \in Outputs(c) :
        out = _convert_html_fragment_to_aozora(value[c], text_type[c])

\* Call 1 has returned once and is in its second run, about to restore its URLs,
\* while call 2, on another fragment, is about to restore its English runs.
C8_Witness ==
    /\ value[1] # value[2]
    /\ Len(returned[1]) = 1
    /\ pc[1] = "_rebuild_urls" /\ urls[1] # <<>>
    /\ pc[2] = "_rebuild_english_sentences" /\ english_sentences[2] # <<>>

----------------------------------------------------------------------------
(* _html_to_aozora on its own, one action per substitution *)

\* Call 1 is about to run one function on its own, at label at, on the text v.
Converting(at, v, k) ==
    /\ pc = [c \in Calls |-> IF c = 1 THEN at ELSE "idle"]
    /\ value = [c \in Calls |-> IF c = 1 THEN v ELSE <<>>]
    /\ text = [c \in Calls |-> IF c = 1 THEN v ELSE <<>>]
    /\ text_type = [c \in Calls |-> k]
    /\ earlier = [c \in Calls |-> NoEarlier]
    /\ urls = [f \in Calls |-> <<>>]
    /\ english_sentences = [f \in Calls |-> <<>>]
    /\ num_and_comma = [f \in Calls |-> <<>>]
    /\ ran = [c \in Calls |-> {}]
    /\ raised = [c \in Calls |-> FALSE]
    /\ returned = [c \in Calls |-> <<>>]
    /\ lines = <<>>
    /\ line_no = 0
    /\ packed = <<>>
    /\ blank_run = 0
    /\ prev_border = FALSE
    /\ previous = None

Alone(at, v, k) == OutsideIdle /\ Converting(at, v, k)

\* Call 1 runs the statement  text = t  at label at and goes on to label to.
Assign(at, to, t) ==
    /\ pc[1] = at
    /\ pc' = [pc EXCEPT ![1] = to]
    /\ text' = [text EXCEPT ![1] = t]
    /\ UNCHANGED <<Outside, previous, Args, Locals, ran, raised, returned, PackLocals>>

\* <name> in lower or in upper case
Tag(name, upper) ==
    <<"<">> \o (IF upper THEN Translate(name, Lowercase, Uppercase) ELSE name) \o <<">">>

\* <rp>c</rp>
Rp(ch, upper) == Tag(<<"r", "p">>, upper) \o <<ch>> \o Tag(<<"/", "r", "p">>, upper)

\* Ruby bases and readings as they stand in the HTML, and without their tags.
RubyBases ==
    { [html |-> <<J1>>, plain |-> <<J1>>],
      [html |-> <<J1, J2>>, plain |-> <<J1, J2>>],
      [html |-> <<"<", "b", ">", J1, "<", "/", "b", ">">>, plain |-> <<J1>>],
      [html |-> <<"<", "r", "b", ">", J2, "<", "/", "r", "b", ">">>, plain |-> <<J2>>] }
RubyReadings ==
    { [html |-> <<J2>>, plain |-> <<J2>>],
      [html |-> <<NAKATEN>>, plain |-> <<NAKATEN>>],
      [html |-> <<NAKATEN, TOUTEN, NAKATEN>>, plain |-> <<NAKATEN, TOUTEN, NAKATEN>>],
      [html |-> <<J2, NAKATEN>>, plain |-> <<J2, NAKATEN>>],
      [html |-> <<"<", "i", ">", TOUTEN, "<", "/", "i", ">">>, plain |-> <<TOUTEN>>],
      [html |-> <<>>, plain |-> <<>>] }

\* <ruby>BASE<rt>READING</rt></ruby>, with <rp>(</rp> and <rp>)</rp> around
\* the <rt> element or without them.
RubyWithRt(base, reading, rp, upper) ==
    Tag(<<"r", "u", "b", "y">>, upper) \o base
        \o (IF rp THEN Rp("(", upper) ELSE <<>>)
        \o Tag(<<"r", "t">>, upper) \o reading \o Tag(<<"/", "r", "t">>, upper)
        \o (IF rp THEN Rp(")", upper) ELSE <<>>)
        \o Tag(<<"/", "r", "u", "b", "y">>, upper)

\* <ruby>BASE</ruby>
RubyWithoutRt(base, upper) ==
    Tag(<<"r", "u", "b", "y">>, upper) \o base \o Tag(<<"/", "r", "u", "b", "y">>, upper)

\* What a ruby element becomes: the emphasis-dots wrapper around the base for
\* a reading of ・ and 、 only, ｜BASE《READING》 for every other reading.
RubyOrDots(base, reading) ==
    IF reading # <<>> /\ Range(reading) \subseteq {NAKATEN, TOUTEN}
    THEN BoutenOpen \o base \o BoutenClose
    ELSE <<Zen("|")>> \o base \o <<LRUBY>> \o reading \o <<RRUBY>>

\* Texts with one ruby element, after Japanese text or at the start, and what
\* each is to become.
RubyCases ==
    { [value |-> before \o RubyWithRt(b.html, r.html, rp, upper),
       expected |-> before \o RubyOrDots(b.plain, r.plain)] :
          before \in {<<>>, <<J2>>}, b \in RubyBases, r \in RubyReadings,
          rp \in BOOLEAN, upper \in BOOLEAN }
    \cup
    { [value |-> before \o RubyWithoutRt(b.html, upper), expected |-> before \o b.plain] :
          before \in {<<>>, <<J2>>}, b \in RubyBases, upper \in BOOLEAN }

\* The empty value, and a value without markup that holds a line break (for
\* story it is taken as preformatted: pre_html of line 407).
HtmlInputs == {x.value : x \in RubyCases} \cup {<<>>, <<J1, CR, NL, J2>>}

InitHtml == \E v \in HtmlInputs, k \in {"body", "story"} : Alone("html_call", v, k)

\* lines 17-19
HtmlEnter ==
    /\ pc[1] = "html_call"
    /\ pc' = [pc EXCEPT ![1] = IF value[1] = <<>> THEN "html_return" ELSE "html_breaks"]
    /\ text' = [text EXCEPT ![1] = value[1]]
    /\ UNCHANGED <<Outside, previous, Args, Locals, ran, raised, returned, PackLocals>>

\* lines 20-22
HtmlLineBreaks ==
    Assign("html_breaks", "html_end_p",
           IF PreHtml(value[1], text_type[1]) THEN text[1]
           ELSE BrFrom(DropNewlines(text[1]), 1))

\* line 23
HtmlEndP == Assign("html_end_p", "html_ruby", EndPFrom(text[1], 1))

\* line 36
HtmlRuby == Assign("html_ruby", "html_b", RubyFrom(text[1], 1))

\* lines 37-38
HtmlBold ==
    Assign("html_b", "html_i",
           ReplaceCI(ReplaceCI(text[1], <<"<", "b", ">">>, Annot(<<"@futoji">>)),
                     <<"<", "/", "b", ">">>, Annot(<<"@futoji", "@owari">>)))

\* lines 39-40
HtmlItalic ==
    Assign("html_i", "html_s",
           ReplaceCI(ReplaceCI(text[1], <<"<", "i", ">">>, Annot(<<"@shatai">>)),
                     <<"<", "/", "i", ">">>, Annot(<<"@shatai", "@owari">>)))

\* lines 41-42
HtmlStrike ==
    Assign("html_s", "html_img",
           ReplaceCI(ReplaceCI(text[1], <<"<", "s", ">">>, Annot(<<"@torikeshisen">>)),
                     <<"<", "/", "s", ">">>, Annot(<<"@torikeshisen", "@owari">>)))

\* line 48
HtmlImg == Assign("html_img", "html_em", ImgFrom(text[1], 1))

\* line 49
HtmlEm == Assign("html_em", "html_delete_tag", EmFrom(text[1], 1))

\* line 50
HtmlDeleteTag == Assign("html_delete_tag", "html_unescape", _delete_tag(text[1]))

\* line 51
HtmlUnescape == Assign("html_unescape", "html_return", html_unescape(text[1]))

\* lines 18 and 52
HtmlReturn ==
    /\ pc[1] = "html_return"
    /\ pc' = [pc EXCEPT ![1] = "html_done"]
    /\ returned' = [returned EXCEPT ![1] = Append(@, text[1])]
    /\ UNCHANGED <<Outside, previous, Args, text, Locals, ran, raised, PackLocals>>

NextHtml ==
    \/ HtmlEnter
    \/ HtmlLineBreaks
    \/ HtmlEndP
    \/ HtmlRuby
    \/ HtmlBold
    \/ HtmlItalic
    \/ HtmlStrike
    \/ HtmlImg
    \/ HtmlEm
    \/ HtmlDeleteTag
    \/ HtmlUnescape
    \/ HtmlReturn

SpecHtml == InitHtml /\ [][NextHtml]_vars

\* C11: _html_to_aozora returns a ruby element with an <rt> part, with or
\* without <rp> parts, as ｜BASE《READING》 with the tags of base and reading
\* stripped, as ［＃傍点］BASE［＃傍点終わり］ when the reading is ・ and 、
\* only, and a ruby element without <rt> as its content with the tags stripped.
C11_RubyElement ==
    \A x \in RubyCases :
        pc[1] = "html_done" /\ value[1] = x.value => returned[1] = <<x.expected>>

\* A ruby element in upper case with <rp> parts, a bold base and a reading of
\* one 、 in italics was returned as the emphasis-dots wrapper around the base.
C11_Witness ==
    /\ pc[1] = "html_done"
    /\ value[1] = RubyWithRt(<<"<", "b", ">", J1, "<", "/", "b", ">">>,
                             <<"<", "i", ">", TOUTEN, "<", "/", "i", ">">>, TRUE, TRUE)
    /\ returned[1] = << BoutenOpen \o <<J1>> \o BoutenClose >>

----------------------------------------------------------------------------
(* _convert_tatechuyoko on its own: its two substitutions *)

MaxTcyLen == 6

\* Texts of ！, ？ and Japanese text.
TcyTexts == UNION {[1..n -> {Zen("!"), Zen("?"), J1}] : n \in 0..MaxTcyLen}

InitTcy == \E t \in TcyTexts : Alone("tcy_bang", t, "body")

\* line 258
TcyBang == Assign("tcy_bang", "tcy_mixed", BangFrom(text[1], 1))

\* line 268
TcyMixed == Assign("tcy_mixed", "tcy_done", MixedFrom(text[1], 1))

NextTcy == TcyBang \/ TcyMixed

SpecTcy == InitTcy /\ [][NextTcy]_vars

\* What a maximal run of ！ and ？ is to become.  A run of ！ only has no ？
\* beside it; in a run that holds a ？ every run of ！ has a ？ beside it.
TcyOfRun(token) ==
    LET n == Len(token)
        ascii == Translate(token, <<Zen("!"), Zen("?")>>, <<"!", "?">>)
    IN IF Zen("?") \notin Range(token) /\ n = 3 THEN tcy(<<"!", "!", "!">>)
       ELSE IF Zen("?") \notin Range(token) /\ n >= 4
            THEN Repeat(tcy(<<"!", "!">>), (n + 1) \div 2)
       ELSE IF n = 2 THEN tcy(ascii)
       ELSE IF token \in {<<Zen("!"), Zen("!"), Zen("?")>>, <<Zen("?"), Zen("!"), Zen("!")>>}
            THEN tcy(ascii)
       ELSE token

RECURSIVE TcyOfRuns(_, _)
\* Every maximal run of ！ and ？ of s from position i on rewritten by
\* TcyOfRun, everything else kept.
TcyOfRuns(s, i) ==
    IF i > Len(s) THEN <<>>
    ELSE LET n == RunLen(s, i, {Zen("!"), Zen("?")}) IN
         IF n = 0 THEN <<s[i]>> \o TcyOfRuns(s, i + 1)
         ELSE TcyOfRun(SubSeq(s, i, i + n - 1)) \o TcyOfRuns(s, i + n)

\* C12: _convert_tatechuyoko turns a maximal run of n ！ with no ？ beside it
\* into one wrapped !!! for n = 3 and into ceil(n/2) wrapped !! for n >= 4; a
\* maximal run of ！ and ？ of length 2, or equal to ！！？ or ？！！, is wrapped
\* once in ASCII; every other run, and everything else, is unchanged.
C12_BangRuns ==
    pc[1] = "tcy_done" => text[1] = TcyOfRuns(value[1], 1)

\* A run of five ！ after Japanese text became three wrapped pairs.
C12_Witness ==
    /\ pc[1] = "tcy_done"
    /\ value[1] = <<J1, Zen("!"), Zen("!"), Zen("!"), Zen("!"), Zen("!")>>
    /\ text[1] = <<J1>> \o tcy(<<"!", "!">>) \o tcy(<<"!", "!">>) \o tcy(<<"!", "!">>)

----------------------------------------------------------------------------
(* _convert_horizontal_ellipsis on its own: the four passes and the two replaces *)

MaxDotRun == 7

\* What stands before and after the run.
DotEdges ==
    { <<>>, <<DASH>>, <<J1>>, <<NAKATEN, NAKATEN, NAKATEN>>, <<KUTEN, KUTEN>>,
      <<TOUTEN, TOUTEN, DASH>>, <<Zen(".")>> }

DotTexts ==
    { pre \o Repeat(<<c>>, n) \o post :
        pre \in DotEdges, post \in DotEdges,
        c \in {NAKATEN, KUTEN, TOUTEN, Zen(".")}, n \in 1..MaxDotRun }

InitEllipsis == \E t \in DotTexts : Alone("ellipsis_nakaten", t, "body")

\* lines 338-349, char = '・'
EllipsisNakaten == Assign("ellipsis_nakaten", "ellipsis_kuten", EllipsisFrom(text[1], 1, NAKATEN))

\* lines 338-349, char = '。'
EllipsisKuten == Assign("ellipsis_kuten", "ellipsis_touten", EllipsisFrom(text[1], 1, KUTEN))

\* lines 338-349, char = '、'
EllipsisTouten == Assign("ellipsis_touten", "ellipsis_period", EllipsisFrom(text[1], 1, TOUTEN))

\* lines 338-349, char = '．'
EllipsisPeriod == Assign("ellipsis_period", "kuten_pairs", EllipsisFrom(text[1], 1, Zen(".")))

\* line 350
EllipsisKutenPairs ==
    Assign("kuten_pairs", "touten_pairs", Replace(text[1], <<KUTEN, KUTEN>>, <<KUTEN>>))

\* lines 351-352
EllipsisToutenPairs ==
    Assign("touten_pairs", "ellipsis_done", Replace(text[1], <<TOUTEN, TOUTEN>>, <<TOUTEN>>))

NextEllipsis ==
    \/ EllipsisNakaten
    \/ EllipsisKuten
    \/ EllipsisTouten
    \/ EllipsisPeriod
    \/ EllipsisKutenPairs
    \/ EllipsisToutenPairs

SpecEllipsis == InitEllipsis /\ [][NextEllipsis]_vars

RECURSIVE FoldRuns(_, _)
\* s from position i on, with every maximal run of n >= 3 of one of ・ 。 、 ．
\* that has no ― directly before or after it replaced by ceil(n/6)*2 times …,
\* and everything else kept.
FoldRuns(s, i) ==
    IF i > Len(s) THEN <<>>
    ELSE LET n == IF s[i] \in {NAKATEN, KUTEN, TOUTEN, Zen(".")} THEN RunLen(s, i, {s[i]}) ELSE 1
             before == IF i > 1 THEN s[i - 1] ELSE ""
             after == IF i + n <= Len(s) THEN s[i + n] ELSE ""
         IN (IF n >= 3 /\ before # DASH /\ after # DASH
             THEN Repeat(<<LEADER3>>, ((n + 5) \div 6) * 2)
             ELSE SubSeq(s, i, i + n - 1))
            \o FoldRuns(s, i + n)

\* Every maximal run of … in t has even length.
EvenLeaders(t) ==
    \A i \in 1..Len(t) :
        t[i] = LEADER3 /\ (i = 1 \/ t[i - 1] # LEADER3) => RunLen(t, i, {LEADER3}) % 2 = 0

\* C13: after the four passes of _convert_horizontal_ellipsis every maximal
\* run of n >= 3 of ・, of 。, of 、 or of ． without a ― directly before or
\* after it has become ceil(n/6)*2 times …, and nothing else has changed; the
\* two replaces that follow leave every … where it is, so the returned text
\* holds … in runs of even length only.
C13_EllipsisRuns ==
    /\ pc[1] = "kuten_pairs" => text[1] = FoldRuns(value[1], 1)
    /\ pc[1] = "ellipsis_done" =>
          /\ SelectSeq(text[1], LAMBDA ch : ch = LEADER3)
                = SelectSeq(FoldRuns(value[1], 1), LAMBDA ch : ch = LEADER3)
          /\ text[1] = Replace(Replace(FoldRuns(value[1], 1), <<KUTEN, KUTEN>>, <<KUTEN>>),
                               <<TOUTEN, TOUTEN>>, <<TOUTEN>>)
          /\ EvenLeaders(text[1])

\* Seven ・ between Japanese text and 。。 became four ….
C13_Witness ==
    /\ pc[1] = "ellipsis_done"
    /\ value[1] = <<J1>> \o Repeat(<<NAKATEN>>, 7) \o <<KUTEN, KUTEN>>
    /\ text[1] = <<J1, LEADER3, LEADER3, LEADER3, LEADER3, KUTEN>>

----------------------------------------------------------------------------
(* PyNarouDownloader (narou_py/downloader.py)                              *)
(*                                                                         *)
(* An index, a chapter title, a subtitle and the html of a section are     *)
(* texts.  A table-of-contents page is the list of the matches that        *)
(* site.subtitles_pattern finds on it, each with its groups index,         *)
(* subtitle and chapter (href follows from index).  A stored file is       *)
(* either not a JSON object or a JSON object with the members index and    *)
(* element; its name is the stem of its path.                              *)

_TOC_PAGE_LIMIT == 200

Least(S) == CHOOSE x \in S : \A y \in S : x <= y

RECURSIVE TagReFrom(_, _)
\* TAG_RE.sub('', s) from position i on, TAG_RE = <[^>]+>
TagReFrom(s, i) ==
    IF i > Len(s) THEN <<>>
    ELSE LET gt == {j \in (i + 1)..Len(s) : s[j] = ">"}
         IN  IF s[i] = "<" /\ gt # {} /\ Least(gt) > i + 1
             THEN TagReFrom(s, Least(gt) + 1)
             ELSE <<s[i]>> \o TagReFrom(s, i + 1)

\* parser.strip_html of a text without comments, script elements, entities,
\* U+00A0 and runs of blanks or of line breaks: the tags go, the ends are stripped
strip_html(v) == IF v = <<>> THEN <<>> ELSE Strip(TagReFrom(v, 1), Whitespace)

\* [0-9A-Za-z぀-ヿ㐀-鿿] within the alphabet: the kanji digits
\* but K0 (U+3007) are in the last range
MeaningfulChars ==
    Range(HankakuNum) \cup Range(Lowercase) \cup Range(Uppercase) \cup {J1, J2}
        \cup {_KANJI_NUM[d] : d \in 2..10}

_has_meaningful_content(body, introduction, postscript) ==
    \E content \in {body, introduction, postscript} :
        LET plain == SelectSeq(strip_html(content), LAMBDA ch : ch \notin Whitespace)
        IN  plain # <<>> /\ Range(plain) \cap MeaningfulChars # {}

\* [\\/:*?"<>|]
UnsafeChars == {"BSL", "/", ":", "*", "?", "DQ", "<", ">", "|"}

\* _safe_filename of a text of at most 120 characters without runs of blanks
_safe_filename(t) ==
    LET stripped == strip_html(t)
        cleaned == Strip([i \in 1..Len(stripped) |->
                             IF stripped[i] \in UnsafeChars THEN "_" ELSE stripped[i]],
                         Whitespace)
    IN  IF cleaned = <<>> THEN <<"u", "n", "t", "i", "t", "l", "e", "d">> ELSE cleaned

\* The stem of the file that download writes for a subtitle
SectionFileName(subtitle) == subtitle.index \o <<SP>> \o _safe_filename(subtitle.subtitle)

\* re.match(r'^(\d+)\s', stem): the group, or the empty text when there is no match
StemIndex(stem) ==
    LET n == RunLen(stem, 1, Range(HankakuNum))
    IN  IF n > 0 /\ n < Len(stem) /\ stem[n + 1] \in Whitespace
        THEN SubSeq(stem, 1, n) ELSE <<>>

\* A loop that takes every stored index, whatever the content
IndexesOfFileAnyContent(stem, file) ==
    IF file.json = "object" /\ Strip(file.index, Whitespace) # <<>>
    THEN {Strip(file.index, Whitespace)}
    ELSE IF StemIndex(stem) # <<>> THEN {StemIndex(stem)}
    ELSE {}

\* One pass of the loop of _load_existing_indexes: what the file adds to indexes
IndexesOfFile(stem, file) ==
    LET parsed_index == IF file.json = "object" THEN Strip(file.index, Whitespace) ELSE <<>>
        counted ==
            /\ file.json = "object"
            /\ file.element.dict
            /\ parsed_index # <<>>
            /\ _has_meaningful_content(Strip(file.element.body, Whitespace),
                                       Strip(file.element.introduction, Whitespace),
                                       Strip(file.element.postscript, Whitespace))
    IN  IF counted THEN {parsed_index}
        ELSE IF parsed_index # <<>> THEN {}
        ELSE IF StemIndex(stem) # <<>> THEN {StemIndex(stem)}
        ELSE {}

_load_existing_indexes(section_dir) ==
    UNION {IndexesOfFile(stem, section_dir[stem]) : stem \in DOMAIN section_dir}

_extract_toc_page_max(pager) ==
    IF pager = 0 THEN 1
    ELSE IF pager > _TOC_PAGE_LIMIT THEN _TOC_PAGE_LIMIT
    ELSE IF pager < 1 THEN 1
    ELSE pager

\* The pages that _fetch_toc_pages requests from the site w
_fetch_toc_pages(w) ==
    IF w.site # "narou" THEN SubSeq(w.pages, 1, 1)
    ELSE SubSeq(w.pages, 1, _extract_toc_page_max(w.pager))

RECURSIVE ParsePagesPerPageFrom(_, _, _, _, _, _)
\* Loops that start every page without a chapter
ParsePagesPerPageFrom(toc_pages, p, i, out, seen_indexes, carry_chapter) ==
    IF p > Len(toc_pages) THEN out
    ELSE IF i > Len(toc_pages[p])
    THEN ParsePagesPerPageFrom(toc_pages, p + 1, 1, out, seen_indexes, <<>>)
    ELSE LET item == toc_pages[p][i]
             chapter == IF item.chapter # <<>> THEN item.chapter ELSE carry_chapter
         IN  IF item.index # <<>> /\ item.index \in seen_indexes
             THEN ParsePagesPerPageFrom(toc_pages, p, i + 1, out, seen_indexes, chapter)
             ELSE ParsePagesPerPageFrom(toc_pages, p, i + 1,
                                        Append(out, [item EXCEPT !.chapter = chapter]),
                                        seen_indexes \cup {item.index}, chapter)

RECURSIVE ParsePagesFrom(_, _, _, _, _, _)
\* The two loops of _parse_subtitles_pages from item i of page p on
ParsePagesFrom(toc_pages, p, i, out, seen_indexes, carry_chapter) ==
    IF p > Len(toc_pages) THEN out
    ELSE IF i > Len(toc_pages[p])
    THEN ParsePagesFrom(toc_pages, p + 1, 1, out, seen_indexes, carry_chapter)
    ELSE LET item == toc_pages[p][i]
             chapter == IF item.chapter # <<>> THEN item.chapter ELSE carry_chapter
             carried == IF item.chapter # <<>> THEN item.chapter ELSE carry_chapter
         IN  IF item.index # <<>> /\ item.index \in seen_indexes
             THEN ParsePagesFrom(toc_pages, p, i + 1, out, seen_indexes, carried)
             ELSE ParsePagesFrom(toc_pages, p, i + 1,
                                 Append(out, [item EXCEPT !.chapter = chapter]),
                                 IF item.index # <<>>
                                 THEN seen_indexes \cup {item.index} ELSE seen_indexes,
                                 carried)

_parse_subtitles_pages(toc_pages) == ParsePagesFrom(toc_pages, 1, 1, <<>>, {}, <<>>)

\* _download_section on a narou page: the three groups, stripped
_download_section(w, subtitle) ==
    LET html == w.sections[subtitle.index]
    IN  [introduction |-> Strip(html.introduction, Whitespace),
         body |-> Strip(html.body, Whitespace),
         postscript |-> Strip(html.postscript, Whitespace)]

\* The member element of a stored JSON object, when it is an object itself
Element(body, introduction, postscript) ==
    [dict |-> TRUE, body |-> body, introduction |-> introduction, postscript |-> postscript]

\* ... and when it is any other JSON value
NoElement == [dict |-> FALSE]

\* The members of payload that _load_existing_indexes reads
Payload(subtitle, section) ==
    [json |-> "object", index |-> subtitle.index,
     element |-> Element(section.body, section.introduction, section.postscript)]

\* path.write_text: the file is created or replaced
WriteText(dir, stem, file) ==
    [n \in DOMAIN dir \cup {stem} |-> IF n = stem THEN file ELSE dir[n]]

MaxDownloads == 2       \* calls of download on one directory
MaxStoredFiles == 2     \* files in the section directory before the first call

Sub(index, subtitle, chapter) == [index |-> index, subtitle |-> subtitle, chapter |-> chapter]

DownloadPages ==
    { <<<<Sub(<<"1">>, <<"o">>, <<>>)>>>>,
      <<<<Sub(<<"1">>, <<"o">>, <<>>), Sub(<<"2">>, <<"t">>, <<>>)>>>> }

\* The groups body, introduction and postscript that the patterns of the site
\* find on the page of a section
Groups(body, introduction, postscript) ==
    [body |-> body, introduction |-> introduction, postscript |-> postscript]

ServedSections ==
    { Groups(<<"a">>, <<>>, <<>>), Groups(<<>>, <<>>, <<>>),
      Groups(<<"<", "i", "m", "g", ">">>, <<>>, <<>>) }

StoredElements ==
    { Element(<<"a">>, <<>>, <<>>), Element(<<>>, <<>>, <<>>), Element(<<"<">>, <<>>, <<>>),
      Element(<<>>, <<>>, <<J1>>), Element(<<"<", "a", ">">>, <<_KANJI_NUM[1]>>, <<SP>>) }

StoredFiles ==
    {[json |-> "invalid"]}
        \cup {[json |-> "object", index |-> i, element |-> e] :
                 i \in {<<>>, <<"1">>}, e \in StoredElements \cup {NoElement}}
        \cup {[json |-> "object", index |-> <<"2">>, element |-> Element(<<"a">>, <<>>, <<>>)]}

StoredNames == { <<"1", SP, "o">>, <<"1", SP, "x">>, <<"2", SP, "t">>, <<"x">> }

SectionDirs ==
    UNION {[names -> StoredFiles] :
              names \in {n \in SUBSET StoredNames : Cardinality(n) <= MaxStoredFiles}}

InitDownload ==
    /\ Converting("idle", <<>>, "body")
    /\ CliIdle
    /\ ExporterIdle
    /\ \E pages \in DownloadPages, s1 \in ServedSections, s2 \in ServedSections :
          web = [site |-> "narou", pages |-> pages, pager |-> 0,
                 sections |-> (<<"1">> :> s1) @@ (<<"2">> :> s2)]
    /\ disk \in SectionDirs
    /\ skip_existing \in BOOLEAN
    /\ dl_pc = "download"
    /\ subtitles = <<>>
    /\ existing_indexes = {}
    /\ subtitle_no = 0
    /\ downloaded = 0
    /\ skipped = 0
    /\ requests = <<>>
    /\ disk_at_call = disk

Converter == <<pc, Args, text, Locals, ran, raised, returned, PackLocals, previous>>

\* novel = self.fetch_novel()
DownloadFetchNovel ==
    /\ dl_pc = "download"
    /\ subtitles' = _parse_subtitles_pages(_fetch_toc_pages(web))
    /\ requests' = Append(requests, <<>>)
    /\ dl_pc' = "load_existing"
    /\ UNCHANGED <<Converter, Cli, Exporter, web, disk, skip_existing, existing_indexes, subtitle_no,
                   downloaded, skipped, disk_at_call>>

\* existing_indexes = ... ; downloaded = 0 ; skipped = 0
DownloadLoadExisting ==
    /\ dl_pc = "load_existing"
    /\ existing_indexes' = IF skip_existing THEN _load_existing_indexes(disk) ELSE {}
    /\ downloaded' = 0
    /\ skipped' = 0
    /\ subtitle_no' = 0
    /\ dl_pc' = "for_subtitle"
    /\ UNCHANGED <<Converter, Cli, Exporter, web, disk, skip_existing, subtitles, requests, disk_at_call>>

\* One pass of the loop whose subtitle is in existing_indexes
DownloadSkip ==
    /\ dl_pc = "for_subtitle"
    /\ subtitle_no < Len(subtitles)
    /\ subtitles[subtitle_no + 1].index \in existing_indexes
    /\ skipped' = skipped + 1
    /\ subtitle_no' = subtitle_no + 1
    /\ UNCHANGED <<Converter, Cli, Exporter, web, disk, skip_existing, dl_pc, subtitles, existing_indexes,
                   downloaded, requests, disk_at_call>>

\* One pass of the loop that requests the section and writes its file
DownloadSave ==
    /\ dl_pc = "for_subtitle"
    /\ subtitle_no < Len(subtitles)
    /\ LET subtitle == subtitles[subtitle_no + 1]
       IN  /\ subtitle.index \notin existing_indexes
           /\ requests' = [requests EXCEPT ![Len(requests)] = Append(@, subtitle.index)]
           /\ disk' = WriteText(disk, SectionFileName(subtitle),
                                Payload(subtitle, _download_section(web, subtitle)))
    /\ downloaded' = downloaded + 1
    /\ subtitle_no' = subtitle_no + 1
    /\ UNCHANGED <<Converter, Cli, Exporter, web, skip_existing, dl_pc, subtitles, existing_indexes,
                   skipped, disk_at_call>>

\* return novel_dir
DownloadReturn ==
    /\ dl_pc = "for_subtitle"
    /\ subtitle_no = Len(subtitles)
    /\ dl_pc' = "done"
    /\ UNCHANGED <<Converter, Cli, Exporter, web, disk, skip_existing, subtitles, existing_indexes,
                   subtitle_no, downloaded, skipped, requests, disk_at_call>>

\* download is called once more, on the directory the last call left
DownloadAgain ==
    /\ dl_pc = "done"
    /\ Len(requests) < MaxDownloads
    /\ dl_pc' = "download"
    /\ disk_at_call' = disk
    /\ UNCHANGED <<Converter, Cli, Exporter, web, disk, skip_existing, subtitles, existing_indexes,
                   subtitle_no, downloaded, skipped, requests>>

NextDownload ==
    \/ DownloadFetchNovel
    \/ DownloadLoadExisting
    \/ DownloadSkip
    \/ DownloadSave
    \/ DownloadReturn
    \/ DownloadAgain

SpecDownload == InitDownload /\ [][NextDownload]_vars

\* The sections that call number n of download requested from the site
RequestedBy(n) == Range(requests[n])

\* A file of the directory holds a JSON object whose index is this one and whose
\* body, introduction or postscript has meaningful content.
Recorded(dir, index) ==
    \E stem \in DOMAIN dir :
        /\ dir[stem].json = "object"
        /\ dir[stem].index = index
        /\ dir[stem].element.dict
        /\ _has_meaningful_content(dir[stem].element.body, dir[stem].element.introduction,
                                   dir[stem].element.postscript)

\* A file of the directory yields no index of its own (it is no JSON object, or
\* the object has no index) and its name starts with this index and a blank.
NamedOnly(dir, index) ==
    \E stem \in DOMAIN dir :
        /\ dir[stem].json # "object" \/ dir[stem].index = <<>>
        /\ StemIndex(stem) = index

Served(subtitle) == Payload(subtitle, _download_section(web, subtitle))

ServedMeaningful(subtitle) ==
    _has_meaningful_content(Served(subtitle).element.body,
                            Served(subtitle).element.introduction,
                            Served(subtitle).element.postscript)

\* C14 (as stated): after download(skip_existing=True) a section was skipped
\* exactly when a file of the directory recorded its index with meaningful
\* content, the file of every requested section holds what the site served, the
\* files that record a skipped section are as they were, and a second download
\* of the same table of contents requests no section.
C14_SkipExisting ==
    (dl_pc = "done" /\ skip_existing) =>
        /\ \A k \in 1..Len(subtitles) :
              /\ subtitles[k].index \notin RequestedBy(Len(requests))
                    <=> Recorded(disk_at_call, subtitles[k].index)
              /\ subtitles[k].index \in RequestedBy(Len(requests))
                    => disk[SectionFileName(subtitles[k])] = Served(subtitles[k])
        /\ \A stem \in DOMAIN disk_at_call :
              (/\ disk_at_call[stem].json = "object"
               /\ \E k \in 1..Len(subtitles) :
                     /\ subtitles[k].index = disk_at_call[stem].index
                     /\ subtitles[k].index \notin RequestedBy(Len(requests)))
                 => disk[stem] = disk_at_call[stem]
        /\ Len(requests) = 2 => requests[2] = <<>>

\* C14 (amended): after download(skip_existing=True) a section was skipped
\* exactly when a file recorded its index with meaningful content or a file
\* that yields no index carries the index in its name; the file named after a
\* requested section holds what the site served and every other file is as it
\* was; downloaded and skipped count the two cases; and of the sections that
\* the first download requested, a second download of the same table of
\* contents requests again exactly those served without meaningful content.
C14_SkipExistingByRecordOrName ==
    (dl_pc = "done" /\ skip_existing) =>
        /\ \A k \in 1..Len(subtitles) :
              /\ subtitles[k].index \notin RequestedBy(Len(requests))
                    <=> \/ Recorded(disk_at_call, subtitles[k].index)
                        \/ NamedOnly(disk_at_call, subtitles[k].index)
              /\ subtitles[k].index \in RequestedBy(Len(requests))
                    => disk[SectionFileName(subtitles[k])] = Served(subtitles[k])
        /\ \A stem \in DOMAIN disk_at_call :
              (\A k \in 1..Len(subtitles) :
                    \/ stem # SectionFileName(subtitles[k])
                    \/ subtitles[k].index \notin RequestedBy(Len(requests)))
                 => stem \in DOMAIN disk /\ disk[stem] = disk_at_call[stem]
        /\ downloaded = Len(requests[Len(requests)])
        /\ downloaded + skipped = Len(subtitles)
        /\ Len(requests) = 2 =>
              \A k \in 1..Len(subtitles) :
                  subtitles[k].index \in RequestedBy(1)
                     => (subtitles[k].index \in RequestedBy(2)
                            <=> ~ServedMeaningful(subtitles[k]))

\* The first call found section 1 recorded without meaningful content and
\* section 2 only named by a file that is no JSON object; it requested section
\* 1, whose served content is not meaningful either, and the second call
\* requested it again.
C14_Witness ==
    /\ dl_pc = "done"
    /\ skip_existing
    /\ Len(subtitles) = 2
    /\ requests = << <<<<"1">>>>, <<<<"1">>>> >>
    /\ <<"2", SP, "t">> \in DOMAIN disk
    /\ disk[<<"2", SP, "t">>].json = "invalid"
    /\ disk[<<"1", SP, "o">>] = Served(subtitles[1])

----------------------------------------------------------------------------
(* fetch_novel on tables of contents of several pages *)

MaxTocPages == 2        \* pages of a table of contents
MaxPageItems == 2       \* subtitles on one page

TocIndexes == {<<"1">>, <<"2">>}
TocChapters == {<<>>, <<"A">>, <<"B">>}

\* The pages p with up to MaxPageItems matches; the subtitle of a match tells
\* its page and its place on the page.
TocPage(p) ==
    UNION {{[i \in 1..n |-> Sub(f[i].index, <<HankakuNum[p + 1], Lowercase[i]>>, f[i].chapter)] :
               f \in [1..n -> [index : TocIndexes, chapter : TocChapters]]} :
           n \in 0..MaxPageItems}

RECURSIVE TocOfPages(_)
TocOfPages(n) ==
    IF n = 0 THEN {<<>>} ELSE {Append(ps, page) : ps \in TocOfPages(n - 1), page \in TocPage(n)}

TocPages == UNION {TocOfPages(n) : n \in 1..MaxTocPages}

\* narou shows the number of the last page on the first one when there are several
InitToc ==
    /\ Converting("idle", <<>>, "body")
    /\ CliIdle
    /\ ExporterIdle
    /\ \E pages \in TocPages, site \in {"narou", "hameln"} :
          /\ site = "hameln" => Len(pages) = 1
          /\ web = [site |-> site, pages |-> pages,
                    pager |-> IF Len(pages) > 1 THEN Len(pages) ELSE 0,
                    sections |-> <<>>]
    /\ disk = <<>>
    /\ skip_existing = TRUE
    /\ dl_pc = "download"
    /\ subtitles = <<>>
    /\ existing_indexes = {}
    /\ subtitle_no = 0
    /\ downloaded = 0
    /\ skipped = 0
    /\ requests = <<>>
    /\ disk_at_call = <<>>

NextToc == DownloadFetchNovel

SpecToc == InitToc /\ [][NextToc]_vars

Greatest(S) == CHOOSE x \in S : \A y \in S : y <= x

\* The matches of all pages, in page order and in-page order
TocItems == Flatten(web.pages)

\* The places of the matches that are the first of their index
FirstOfIndex ==
    {j \in 1..Len(TocItems) :
        TocItems[j].index = <<>> \/ \A i \in 1..(j - 1) : TocItems[i].index # TocItems[j].index}

\* The chapter of match j: its own, else that of the last match before it that has one
ChapterAt(j) ==
    LET with == {i \in 1..j : TocItems[i].chapter # <<>>}
    IN  IF with = {} THEN <<>> ELSE TocItems[Greatest(with)].chapter

\* C15: the subtitles that fetch_novel takes from _parse_subtitles_pages are
\* the matches of all pages in page order and in-page order without the later
\* matches of an index already met, no two of them have the same non-empty
\* index, and each has its own chapter or, having none, the chapter of the last
\* match before it that has one, whichever page that match is on.
C15_SubtitlesOfPages ==
    dl_pc = "load_existing" =>
        /\ Len(subtitles) = Cardinality(FirstOfIndex)
        /\ \A j \in FirstOfIndex :
              LET n == Cardinality({k \in FirstOfIndex : k <= j})
              IN  /\ subtitles[n].index = TocItems[j].index
                  /\ subtitles[n].subtitle = TocItems[j].subtitle
                  /\ subtitles[n].chapter = ChapterAt(j)
        /\ \A m, n \in 1..Len(subtitles) :
              (m # n /\ subtitles[m].index # <<>>) => subtitles[m].index # subtitles[n].index

\* Page 2 repeats the last index of page 1 and goes on with a subtitle
\* without a chapter: the repetition is left out and the subtitle gets the
\* chapter of page 1.
C15_Witness ==
    /\ dl_pc = "load_existing"
    /\ web.pages = << <<Sub(<<"1">>, <<"1", "a">>, <<"A">>)>>,
                      <<Sub(<<"1">>, <<"2", "a">>, <<>>), Sub(<<"2">>, <<"2", "b">>, <<>>)>> >>
    /\ subtitles = <<Sub(<<"1">>, <<"1", "a">>, <<"A">>), Sub(<<"2">>, <<"2", "b">>, <<"A">>)>>

----------------------------------------------------------------------------
(* cli.main (narou_py/cli.py) with EpubExporter (narou_py/epub_exporter.py) *)
(*                                                                         *)
(* An exception is the name of its class.  main ends by returning "0" or   *)
(* "2" or by letting an exception escape.  The downloader of main runs as  *)
(* modelled above, on a site that answers every request.                   *)

_NO_INDEX_KEY == 1000000000

Targets == {"n1234ab", "ftp://nothing"}

\* detect_site on the targets of the model: ^n\d+[a-z]+$ and the url patterns
detect_site(target) == target = "n1234ab"

\* The keyword parameters of AozoraEpubExporter.__init__
AozoraExporterKeywords == {"aozora_jar"}

\* ord(ch) of an ASCII character
Ord(ch) == IF ch = SP THEN 32 ELSE IndexOf(Printable, ch) + 32

RECURSIVE StrLess(_, _)
\* a < b for two str
StrLess(a, b) ==
    IF b = <<>> THEN FALSE
    ELSE IF a = <<>> THEN TRUE
    ELSE IF Head(a) = Head(b) THEN StrLess(Tail(a), Tail(b))
    ELSE Ord(Head(a)) < Ord(Head(b))

RECURSIVE IntOf(_)
\* int(s) of a text of ASCII digits
IntOf(s) ==
    IF s = <<>> THEN 0
    ELSE 10 * IntOf(SubSeq(s, 1, Len(s) - 1)) + (IndexOf(HankakuNum, s[Len(s)]) - 1)

_section_sort_key(stem) ==
    LET blanks == {i \in 1..Len(stem) : stem[i] = SP}
        index == Strip(IF blanks = {} THEN stem ELSE SubSeq(stem, 1, Least(blanks) - 1),
                       Whitespace)
    IN  IF index # <<>> /\ Range(index) \subseteq Range(HankakuNum)
        THEN <<IntOf(index), stem>> ELSE <<_NO_INDEX_KEY, stem>>

KeyLess(a, b) == a[1] < b[1] \/ (a[1] = b[1] /\ StrLess(a[2], b[2]))

Returned(v) == [kind |-> "returned", value |-> v]
Raised(e) == [kind |-> "raised", value |-> e]

\* EpubExporter._load_sections: the list of sections (here their number), or the
\* exception of the first file in sorted order that json.load or .get fails on
_load_sections(section_dir) ==
    LET failing == {stem \in DOMAIN section_dir :
                       \/ section_dir[stem].json # "object"
                       \/ ~section_dir[stem].element.dict}
        first == CHOOSE f \in failing :
                     \A g \in failing \ {f} : KeyLess(_section_sort_key(f), _section_sort_key(g))
    IN  IF failing = {} THEN Returned(Cardinality(DOMAIN section_dir))
        ELSE IF section_dir[first].json # "object" THEN Raised("JSONDecodeError")
        ELSE Raised("AttributeError")

\* EpubExporter.export(None) in a novel directory whose toc.json download wrote:
\* the path of the epub, named after the title, or the exception
EpubExport(section_dir) ==
    LET sections == _load_sections(section_dir)
    IN  IF sections.kind = "raised" THEN sections
        ELSE IF sections.value = 0 THEN Raised("EpubExportError")
        ELSE Returned("T.epub")

Handled == {"UnsupportedTarget", "EpubExportError", "AozoraExportError"}

CliPages ==
    { <<<<>>>>, <<<<Sub(<<"1">>, <<"o">>, <<>>)>>>>,
      <<<<Sub(<<"1">>, <<"o">>, <<>>), Sub(<<"2">>, <<"t">>, <<>>)>>>> }

CliDirs ==
    { <<>>,
      (<<"1", SP, "o">> :> [json |-> "invalid"]),
      (<<"1", SP, "o">> :> Payload(Sub(<<"1">>, <<"o">>, <<>>), Groups(<<"a">>, <<>>, <<>>))),
      (<<"2", SP, "t">> :> [json |-> "object", index |-> <<"2">>, element |-> NoElement]),
      (<<"x">> :> [json |-> "object", index |-> <<>>, element |-> NoElement]) }

InitCli ==
    /\ Converting("idle", <<>>, "body")
    /\ ExporterIdle
    /\ argv \in [target : Targets, aozora : {"None", "auto", "", "/opt/AozoraEpub3-rs"},
                 no_aozora : BOOLEAN, no_skip_existing : BOOLEAN]
    /\ cli_pc = "main"
    /\ exporters = <<>>
    /\ printed = <<>>
    /\ caught = "None"
    /\ outcome = Running
    /\ \E pages \in CliPages :
          web = [site |-> "narou", pages |-> pages, pager |-> 0,
                 sections |-> (<<"1">> :> Groups(<<"a">>, <<>>, <<>>))
                                  @@ (<<"2">> :> Groups(<<>>, <<>>, <<>>))]
    /\ disk \in CliDirs
    /\ skip_existing = TRUE
    /\ dl_pc = "idle"
    /\ subtitles = <<>>
    /\ existing_indexes = {}
    /\ subtitle_no = 0
    /\ downloaded = 0
    /\ skipped = 0
    /\ requests = <<>>
    /\ disk_at_call = disk

\* downloader = PyNarouDownloader(args.target, ...)
CliDownloader ==
    /\ cli_pc = "main"
    /\ IF detect_site(argv.target)
       THEN cli_pc' = "download" /\ caught' = caught
       ELSE cli_pc' = "except" /\ caught' = "UnsupportedTarget"
    /\ UNCHANGED <<Converter, Downloader, Exporter, argv, exporters, printed, outcome>>

\* novel_dir = downloader.download(skip_existing=not args.no_skip_existing): the call
CliDownload ==
    /\ cli_pc = "download"
    /\ skip_existing' = ~argv.no_skip_existing
    /\ dl_pc' = "download"
    /\ disk_at_call' = disk
    /\ cli_pc' = "downloading"
    /\ UNCHANGED <<Converter, Exporter, argv, exporters, printed, caught, outcome, web, disk,
                   subtitles, existing_indexes, subtitle_no, downloaded, skipped, requests>>

\* ... and its return
CliDownloaded ==
    /\ cli_pc = "downloading"
    /\ dl_pc = "done"
    /\ cli_pc' = "exporter"
    /\ UNCHANGED <<Converter, Downloader, Exporter, argv, exporters, printed, caught, outcome>>

\* use_aozora = ... ; exporter = AozoraEpubExporter(novel_dir, aozora=aozora_path)
\* or exporter = EpubExporter(novel_dir)
CliExporter ==
    /\ cli_pc = "exporter"
    /\ LET use_aozora == argv.aozora \notin {"None", ""} /\ ~argv.no_aozora
       IN  IF use_aozora /\ "aozora" \notin AozoraExporterKeywords
           THEN /\ outcome' = Raised("TypeError")
                /\ cli_pc' = "exit"
                /\ UNCHANGED exporters
           ELSE /\ exporters' = Append(exporters, IF use_aozora THEN "AozoraEpubExporter"
                                                  ELSE "EpubExporter")
                /\ cli_pc' = "export"
                /\ UNCHANGED outcome
    /\ UNCHANGED <<Converter, Downloader, Exporter, argv, printed, caught>>

\* epub_path = exporter.export(...) of an EpubExporter, then print(epub_path) ; return 0
CliExport ==
    /\ cli_pc = "export"
    /\ exporters[Len(exporters)] = "EpubExporter"
    /\ LET epub_path == EpubExport(disk)
       IN  IF epub_path.kind = "returned"
           THEN /\ out_dir' = WriteText(out_dir, epub_path.value, 1)
                /\ printed' = Append(printed, epub_path.value)
                /\ outcome' = Returned("0")
                /\ cli_pc' = "exit"
                /\ UNCHANGED caught
           ELSE IF epub_path.value \in Handled
           THEN /\ caught' = epub_path.value
                /\ cli_pc' = "except"
                /\ UNCHANGED <<out_dir, printed, outcome>>
           ELSE /\ outcome' = epub_path
                /\ cli_pc' = "exit"
                /\ UNCHANGED <<out_dir, printed, caught>>
    /\ UNCHANGED <<Converter, Downloader, argv, exporters, host, export_pc, output_path,
                   subprocess_runs, export_outcome>>

\* except (UnsupportedTarget, EpubExportError, AozoraExportError) as exc
CliExcept ==
    /\ cli_pc = "except"
    /\ printed' = Append(printed, caught)
    /\ outcome' = Returned("2")
    /\ cli_pc' = "exit"
    /\ UNCHANGED <<Converter, Downloader, Exporter, argv, exporters, caught>>

NextCli ==
    \/ CliDownloader
    \/ CliDownload
    \/ DownloadFetchNovel
    \/ DownloadLoadExisting
    \/ DownloadSkip
    \/ DownloadSave
    \/ DownloadReturn
    \/ CliDownloaded
    \/ CliExporter
    \/ CliExport
    \/ CliExcept

SpecCli == InitCli /\ [][NextCli]_vars

\* C16: when main has ended, it has constructed the exporter the options name
\* and no other (AozoraEpubExporter when --aozora is given without
\* --no-aozora, else EpubExporter), no exception has escaped from
\* constructing or running it, a return of "0" comes with the epub path
\* printed once, and a return of "2" with the message of a caught exception
\* printed.
C16_MainExits ==
    cli_pc = "exit" =>
        /\ outcome.kind = "returned"
        /\ dl_pc = "done" =>
              exporters = IF argv.aozora # "None" /\ ~argv.no_aozora
                          THEN <<"AozoraEpubExporter">> ELSE <<"EpubExporter">>
        /\ outcome = Returned("0") => printed = <<"T.epub">>
        /\ outcome = Returned("2") => caught \in Handled /\ printed = <<caught>>

\* main was called with --aozora /opt/AozoraEpub3-rs: the download is done, no
\* exporter exists, nothing is printed and a TypeError has left main.
C16_TypeErrorEscapes ==
    /\ cli_pc = "exit"
    /\ argv.aozora = "/opt/AozoraEpub3-rs"
    /\ ~argv.no_aozora
    /\ dl_pc = "done"
    /\ exporters = <<>>
    /\ printed = <<>>
    /\ outcome = Raised("TypeError")

----------------------------------------------------------------------------
(* AozoraEpubExporter.export (narou_py/aozora_exporter.py)                  *)
(*                                                                         *)
(* The exporter is constructed as the tests do, AozoraEpubExporter(root),  *)
(* and export is called without subjects.  The files beside the output     *)
(* path are known by name and mtime; the text of the input file is what    *)
(* the converter above returns and is not looked at here.                  *)

\* The command of export: java ... -cp <jar> AozoraEpub3 -enc UTF-8 -of -dst <dir> <txt>
JavaCommand(dir, txt) ==
    <<"java", "-Dfile.encoding=UTF-8", "-Dstdout.encoding=UTF-8", "-Dstderr.encoding=UTF-8",
      "-Dsun.stdout.encoding=UTF-8", "-Dsun.stderr.encoding=UTF-8", "-cp", "AozoraEpub3.jar",
      "AozoraEpub3", "-enc", "UTF-8", "-of", "-dst", dir, txt>>

Epubs(dir) == {n \in DOMAIN dir : n \notin {"T.aozora.txt"}}

\* A time later than every mtime of the directory
Later(dir) == IF DOMAIN dir = {} THEN 1 ELSE 1 + Greatest({dir[n] : n \in DOMAIN dir})

Unlink(dir, name) == [n \in DOMAIN dir \ {name} |-> dir[n]]

\* _detect_generated_epub: the epubs that are new or newer than before
Generated(dir, before) ==
    {n \in Epubs(dir) : n \notin DOMAIN before \/ dir[n] > before[n]}

ExportDirs ==
    { <<>>,
      (<<"1", SP, "o">> :> Payload(Sub(<<"1">>, <<"o">>, <<>>), Groups(<<"a">>, <<>>, <<>>))),
      (<<"1", SP, "o">> :> [json |-> "invalid"]) }

InitExport ==
    /\ Converting("idle", <<>>, "body")
    /\ CliIdle
    /\ web = [site |-> "none", pages |-> <<>>, pager |-> 0, sections |-> <<>>]
    /\ disk \in ExportDirs
    /\ dl_pc = "idle"
    /\ subtitles = <<>>
    /\ existing_indexes = {}
    /\ subtitle_no = 0
    /\ downloaded = 0
    /\ skipped = 0
    /\ requests = <<>>
    /\ disk_at_call = <<>>
    /\ skip_existing = TRUE
    /\ host \in [toc : BOOLEAN, java : BOOLEAN, jar : BOOLEAN, rs_binary : BOOLEAN,
                 returncode : {0, 1}, writes : {"None", "generated.epub", "custom.epub"}]
    /\ out_dir \in {<<>>, ("custom.epub" :> 1)}
    /\ export_pc = "export"
    /\ output_path \in {"None", "custom.epub"}
    /\ subprocess_runs = <<>>
    /\ export_outcome = Running

ExportRaise(e) ==
    /\ export_outcome' = Raised(e)
    /\ export_pc' = "exit"

\* toc = self._load_toc() ; sections = self._load_sections() ; if not sections: raise
ExportLoad ==
    /\ export_pc = "export"
    /\ IF ~host.toc THEN ExportRaise("EpubExportError")
       ELSE IF _load_sections(disk).kind = "raised" THEN ExportRaise(_load_sections(disk).value)
       ELSE IF _load_sections(disk).value = 0 THEN ExportRaise("AozoraExportError")
       ELSE export_pc' = "resolve" /\ UNCHANGED export_outcome
    /\ UNCHANGED <<Converter, Downloader, Cli, host, out_dir, output_path, subprocess_runs>>

\* aozora_jar = self._resolve_aozora_jar() ; java_bin = shutil.which('java')
ExportResolve ==
    /\ export_pc = "resolve"
    /\ IF ~host.jar \/ ~host.java THEN ExportRaise("AozoraExportError")
       ELSE export_pc' = "write_text" /\ UNCHANGED export_outcome
    /\ UNCHANGED <<Converter, Downloader, Cli, host, out_dir, output_path, subprocess_runs>>

\* txt_path = self._write_aozora_input_text(toc, sections, target_path.parent)
ExportWriteText ==
    /\ export_pc = "write_text"
    /\ out_dir' = WriteText(out_dir, "T.aozora.txt", Later(out_dir))
    /\ export_pc' = "run"
    /\ UNCHANGED <<Converter, Downloader, Cli, host, output_path, subprocess_runs, export_outcome>>

\* before = ... ; subprocess.run(command, ...), during which the converter of the
\* host writes its epub ; txt_path.unlink ; the checks ; return target_path
ExportRun ==
    /\ export_pc = "run"
    /\ subprocess_runs' = Append(subprocess_runs, JavaCommand("out", "T.aozora.txt"))
    /\ LET target_path == IF output_path = "None" THEN "T.epub" ELSE output_path
           before == [n \in Epubs(out_dir) |-> out_dir[n]]
           written == IF host.writes = "None" THEN out_dir
                      ELSE WriteText(out_dir, host.writes, Later(out_dir))
           left == Unlink(written, "T.aozora.txt")
           candidates == Generated(left, before)
           produced == CHOOSE n \in candidates : \A m \in candidates : left[m] <= left[n]
       IN  IF host.returncode # 0 \/ candidates = {}
           THEN /\ out_dir' = left
                /\ ExportRaise("AozoraExportError")
           ELSE /\ out_dir' = IF produced = target_path THEN left
                              ELSE WriteText(Unlink(left, produced), target_path, left[produced])
                /\ export_outcome' = Returned(target_path)
                /\ export_pc' = "exit"
    /\ UNCHANGED <<Converter, Downloader, Cli, host, output_path>>

NextExport == ExportLoad \/ ExportResolve \/ ExportWriteText \/ ExportRun

SpecExport == InitExport /\ [][NextExport]_vars

RsBinary == "target/release/aozoraepub3-rs"

\* A run of the release binary with --enc and -d <output dir>
IsRsRun(command) ==
    /\ command[1] = RsBinary
    /\ \E i \in 1..Len(command) : command[i] = "--enc"
    /\ \E i \in 1..(Len(command) - 1) : command[i] = "-d" /\ command[i + 1] = "out"

\* C17: when export has returned, it has run the release binary of
\* AozoraEpub3-rs once if that binary existed, and else cargo build --release
\* and then the binary, and nothing else; the value returned is the requested
\* output path and a file exists there.
C17_RunsReleaseBinary ==
    export_outcome.kind = "returned" =>
        /\ host.rs_binary =>
              Len(subprocess_runs) = 1 /\ IsRsRun(subprocess_runs[1])
        /\ ~host.rs_binary =>
              /\ Len(subprocess_runs) = 2
              /\ subprocess_runs[1] = <<"cargo", "build", "--release">>
              /\ IsRsRun(subprocess_runs[2])
        /\ output_path # "None" => export_outcome.value = output_path
        /\ export_outcome.value \in DOMAIN out_dir

\* export has returned the requested path, the file is there, and the one
\* command it ran is java with the jar, on a host without the release binary.
C17_JavaRan ==
    /\ export_outcome = Returned("custom.epub")
    /\ "custom.epub" \in DOMAIN out_dir
    /\ ~host.rs_binary
    /\ host.writes = "generated.epub"
    /\ subprocess_runs = <<JavaCommand("out", "T.aozora.txt")>>

----------------------------------------------------------------------------
(* The blank run at the start of a document in _pack_blank_lines *)

\* The blank lines ls starts with, and the line breaks t starts with.
LeadingBlankLines(ls) == Least({i \in 0..Len(ls) : i = Len(ls) \/ ~IsBlankLine(ls[i + 1])})
LeadingNewlines(t) == Least({i \in 0..Len(t) : i = Len(t) \/ t[i + 1] # NL})

\* The call has returned for a document of one or more blank lines and a line.
LeadingRunPacked ==
    /\ pc[1] = "pack_done"
    /\ LeadingBlankLines(lines) >= 1
    /\ LeadingBlankLines(lines) < Len(lines)

\* C18 as the specification states it: when the document starts with a run of
\* one or more blank lines, the output starts with exactly one blank line,
\* whatever the length of the run and whatever line, ordinary or border,
\* follows it.
C18_OneLeadingBlank ==
    LeadingRunPacked => LeadingNewlines(returned[1][1]) = 1

\* C18, amended: when the document starts with a run of n >= 1 blank lines and
\* a line follows, the output starts with exactly one blank line if that line
\* is ordinary and does not begin with ！」 or ？」, with no blank line if it is
\* ordinary and begins with ！」 or ？」, and, if it is a border line, with one
\* blank line for n in {1, 3} and two for every other n.
C18_LeadingBlankByLine ==
    LeadingRunPacked =>
        LET n == LeadingBlankLines(lines)
            l == lines[n + 1]
        IN LeadingNewlines(returned[1][1]) =
               IF IsBorderLine(l) THEN BlankLinesAtBorder(n)
               ELSE IF BeginsClosingQuote(l) THEN 0
               ELSE 1

\* A document of four blank lines, an ordinary line, a blank line and a border
\* line was packed: one blank line stands before the ordinary line.
C18_Witness ==
    /\ pc[1] = "pack_done"
    /\ lines = <<<<>>, <<ZSP, TAB>>, <<>>, <<ZSP, TAB>>, <<J1, SP>>, <<>>, <<"DIA_B">>>>
    /\ returned[1][1] = <<NL, J1, NL, NL, ZSP, ZSP, ZSP, ZSP, "DIA_B">>

----------------------------------------------------------------------------
(* _delete_tag on its own, one action per statement of its loop *)

MaxTagLen == 7          \* characters of a text given to _delete_tag

TagChars == {"<", ">", "a", NL}

TextsOfLength(n) == [1..n -> TagChars]
TagInputs == UNION {TextsOfLength(n) : n \in 0..MaxTagLen}

InitDeleteTag == \E v \in TagInputs : Alone("delete_tag_call", v, "body")

\* line 10: previous = None
DeleteTagEnter ==
    /\ pc[1] = "delete_tag_call"
    /\ pc' = [pc EXCEPT ![1] = "delete_tag_while"]
    /\ previous' = None
    /\ UNCHANGED <<Outside, Args, text, Locals, ran, raised, returned, PackLocals>>

\* lines 11-13: text != previous, and one pass of the loop body
DeleteTagSub ==
    /\ pc[1] = "delete_tag_while"
    /\ previous.none \/ text[1] # previous.value
    /\ previous' = Some(text[1])
    /\ text' = [text EXCEPT ![1] = DeleteTagPass(text[1], 1)]
    /\ UNCHANGED <<Outside, Args, pc, Locals, ran, raised, returned, PackLocals>>

\* lines 11 and 14: text == previous, return text
DeleteTagReturn ==
    /\ pc[1] = "delete_tag_while"
    /\ ~previous.none /\ text[1] = previous.value
    /\ pc' = [pc EXCEPT ![1] = "delete_tag_done"]
    /\ returned' = [returned EXCEPT ![1] = Append(@, text[1])]
    /\ UNCHANGED <<Outside, Args, text, Locals, ran, raised, previous, PackLocals>>

NextDeleteTag == DeleteTagEnter \/ DeleteTagSub \/ DeleteTagReturn

\* The loop is one thread of control: a call that can take a step takes it.
SpecDeleteTag == InitDeleteTag /\ [][NextDeleteTag]_vars /\ WF_vars(NextDeleteTag)

\* t holds a '<' that is followed, after at least one character, by a '>'.
HasSpan(t) == \E i, j \in 1..Len(t) : t[i] = "<" /\ t[j] = ">" /\ j >= i + 2

\* C19: _delete_tag returns for every text; a pass of its loop that changes
\* the text makes it strictly shorter; and what it returns is a fixed point of
\* the substitution that holds no '<' followed, after at least one character
\* (a line break included), by a '>'.
C19_DeleteTagFixedPoint ==
    /\ <>(pc[1] = "delete_tag_done")
    /\ [][text'[1] # text[1] => Len(text'[1]) < Len(text[1])]_vars
    /\ [](pc[1] = "delete_tag_done" =>
             /\ ~HasSpan(returned[1][1])
             /\ DeleteTagPass(returned[1][1], 1) = returned[1][1])

\* _delete_tag has returned for the nested text  <a<\n>>a : its first pass
\* removed  <a<\n>  and left  >a , which its second pass kept.
C19_Witness ==
    /\ pc[1] = "delete_tag_done"
    /\ value[1] = <<"<", "a", "<", NL, ">", ">", "a">>
    /\ previous = Some(<<">", "a">>)
    /\ returned[1] = <<<<">", "a">>>>

----------------------------------------------------------------------------
(* The digit runs of subtitle, chapter and story in _convert_numbers *)

RECURSIVE VerticalRunsFrom(_, _, _)
\* The vertical-mixed-digit rule as the specification states it, on the maximal
\* runs of half- and full-width digits of s from position i on.
VerticalRunsFrom(s, i, kind) ==
    IF i > Len(s) THEN <<>>
    ELSE LET n == RunLen(s, i, {ch \in Range(s) : IsDigit(ch)})
             run == SubSeq(s, i, i + n - 1)
         IN IF n = 0 THEN <<s[i]>> \o VerticalRunsFrom(s, i + 1, kind)
            ELSE (IF n = 2 \/ (n = 3 /\ kind = "subtitle" /\ i = 1)
                  THEN tcy(run)
                  ELSE [p \in 1..n |-> IF run[p] \in Range(HankakuNum)
                                       THEN Zen(run[p]) ELSE run[p]])
                 \o VerticalRunsFrom(s, i + n, kind)

\* _convert_numbers has returned for a text of kind subtitle, chapter or story.
VerticalReturned ==
    /\ pc[1] = "numbers_rebuild"
    /\ text_type[1] \in {"subtitle", "chapter", "story"}

\* C20: for the kinds subtitle, chapter and story every maximal digit run is
\* converted by the vertical-mixed-digit rule and never to kanji numerals: a
\* run of exactly 2 digits is wrapped unchanged in ［＃縦中横］ and
\* ［＃縦中横終わり］, a run of exactly 3 digits only when the kind is subtitle
\* and the run starts the text, and every other run becomes full-width digits
\* digit by digit; nothing is stashed. (The decimal point between two digits,
\* which lines 184-188 turn into a middle dot first, is not held against the
\* claim.)
C20_VerticalDigitRuns ==
    VerticalReturned =>
        /\ text[1] = VerticalRunsFrom(DecimalFrom(value[1], 1), 1, text_type[1])
        /\ num_and_comma[1] = <<>>
        /\ Range(text[1]) \cap KanjiDigits = {}

\* C20, away from the digits of other scripts: the same statement for the texts
\* whose only digits are half-width and full-width.
C20_VerticalRunsOfPlainDigits ==
    ARABIC3 \notin Range(value[1]) => C20_VerticalDigitRuns

\* A chapter text of a half-width digit and a digit of another script:
\* _convert_numbers took the two for a run of 2 digits and wrapped them.
C20_ForeignDigitWrapped ==
    /\ pc[1] = "numbers_rebuild"
    /\ text_type[1] = "chapter"
    /\ value[1] = <<"1", ARABIC3>>
    /\ text[1] = tcy(<<"1", ARABIC3>>)

----------------------------------------------------------------------------
(* The decimal point in _convert_numbers, one action per statement *)

MaxDecimalLen == 5      \* characters of a text given to _convert_numbers

DecimalChars == {"1", Zen("2"), _KANJI_NUM[4], ".", Zen("."), "a"}
DecimalTexts == UNION {[1..n -> DecimalChars] : n \in 0..MaxDecimalLen}

InitDecimal == \E t \in DecimalTexts, k \in Kinds : Alone("decimal_sub", t, k)

\* lines 184-188: text = re.sub(..., r'\1・\2', text)
DecimalSub == Assign("decimal_sub", "decimal_runs", DecimalFrom(text[1], 1))

\* lines 189-203: the digit runs of the text, and return
DecimalRuns ==
    LET r == NumbersAfterDecimal(text[1], text_type[1], 0) IN
    /\ pc[1] = "decimal_runs"
    /\ pc' = [pc EXCEPT ![1] = "decimal_done"]
    /\ text' = [text EXCEPT ![1] = r.text]
    /\ num_and_comma' = [num_and_comma EXCEPT ![Frame(1)] = r.table]
    /\ UNCHANGED <<Outside, previous, Args, urls, english_sentences, ran, raised, returned, PackLocals>>

NextDecimal == DecimalSub \/ DecimalRuns

SpecDecimal == InitDecimal /\ [][NextDecimal]_vars

\* A half-width digit, a full-width digit or a kanji digit.
IsDigitClass(ch) == IsDigit(ch) \/ ch \in Range(_KANJI_NUM)
IsPoint(ch) == ch \in {".", Zen(".")}

\* Position p of t holds a decimal point directly between two digit-class characters.
PointBetweenDigits(t, p) ==
    /\ 1 < p /\ p < Len(t)
    /\ IsPoint(t[p])
    /\ IsDigitClass(t[p - 1]) /\ IsDigitClass(t[p + 1])

\* C21: the first step of _convert_numbers replaces every decimal point whose
\* two neighbours are digit-class characters by the nakaten, for every text
\* and kind, so that afterwards no decimal point stands directly between two
\* digit-class characters.
C21_DecimalPoints ==
    pc[1] = "decimal_runs" =>
        /\ Len(text[1]) = Len(value[1])
        /\ \A p \in 1..Len(value[1]) :
              PointBetweenDigits(value[1], p) => text[1][p] = NAKATEN
        /\ \A p \in 1..Len(text[1]) : ~PointBetweenDigits(text[1], p)

\* The step has run on 1.2.3 and left the second point in place.
C21_SecondPointKept ==
    /\ pc[1] = "decimal_runs"
    /\ value[1] = <<"1", ".", "1", ".", "1">>
    /\ text[1] = <<"1", NAKATEN, "1", ".", "1">>

----------------------------------------------------------------------------
(* Numbers beside letters and units: lines 420-422 and 430 of the pipeline *)

MaxUnitLen == 4         \* characters of the text that reaches _convert_numbers

UnitTextChars ==
    {"1", Zen("2"), _KANJI_NUM[4], ARABIC3, Zen("A"), "UNIT_KG", ".", Zen("~"), ",", J1}
UnitTexts == UNION {[1..n -> UnitTextChars] : n \in 0..MaxUnitLen}

InitUnits ==
    \E t \in UnitTexts, k \in {"body", "title", "chapter"} : Alone("units_numbers", t, k)

\* line 420: text, num_and_comma = self._convert_numbers(text, text_type=text_type)
UnitsNumbers ==
    LET r == _convert_numbers(text[1], text_type[1]) IN
    /\ pc[1] = "units_numbers"
    /\ pc' = [pc EXCEPT ![1] = "units_exception"]
    /\ text' = [text EXCEPT ![1] = r.text]
    /\ num_and_comma' = [num_and_comma EXCEPT ![Frame(1)] = r.table]
    /\ UNCHANGED <<Outside, previous, Args, urls, english_sentences, ran, raised, returned, PackLocals>>

\* lines 421-422: the exception pass, for the kinds other than subtitle, chapter and story
UnitsException ==
    Assign("units_exception", "units_rebuild",
           IF text_type[1] \notin VerticalKinds
           THEN _exception_reconvert_kanji_to_num(text[1]) ELSE text[1])

\* line 430: text = self._rebuild_hankaku_num_and_comma(text, num_and_comma)
UnitsRebuild ==
    Assign("units_rebuild", "units_done",
           _rebuild_hankaku_num_and_comma(text[1], num_and_comma[Frame(1)]))

NextUnits == UnitsNumbers \/ UnitsException \/ UnitsRebuild

SpecUnits == InitUnits /\ [][NextUnits]_vars

\* The positions of the maximal run of characters of cls of t that holds p.
RunOf(t, p, cls) ==
    {q \in 1..Len(t) :
        \A k \in (IF p < q THEN p ELSE q)..(IF p < q THEN q ELSE p) : t[k] \in cls}

\* The run of positions ps of t stands directly after a character of before or
\* directly before a character of after.
Beside(t, ps, before, after) ==
    \/ \E q \in ps : q > 1 /\ (q - 1) \notin ps /\ t[q - 1] \in before
    \/ \E q \in ps : q < Len(t) /\ (q + 1) \notin ps /\ t[q + 1] \in after

PlainDigits == {ch \in UnitTextChars : IsDigit(ch)}
FullWidthOf(ch) == IF ch \in Range(HankakuNum) THEN Zen(ch) ELSE ch

\* The pipeline has passed line 430 for a text of a kind other than subtitle,
\* chapter and story.
UnitsDone == pc[1] = "units_done" /\ text_type[1] \notin {"subtitle", "chapter", "story"}

\* C22 as the specification states it: a number of half- or full-width digits
\* directly beside a full-width Latin letter, or directly before a unit symbol,
\* ends up as full-width digits of the same length; a digit run with no such
\* neighbour ends up as kanji digits.
C22_NumbersBesideUnits ==
    UnitsDone =>
        /\ Len(text[1]) = Len(value[1])
        /\ \A p \in 1..Len(value[1]) :
              IsDigit(value[1][p]) =>
                  text[1][p] =
                      IF Beside(value[1], RunOf(value[1], p, PlainDigits),
                                ZenLetters, ZenLetters \cup UnitChars)
                      THEN FullWidthOf(value[1][p])
                      ELSE KanjiOf(value[1][p])

\* The digit at p was stashed: its run of digits and commas, as line 202 takes
\* it, holds a comma.
InCommaGroup(t, p) ==
    \E q \in RunOf(t, p, UnicodeDigits \cup Commas) : t[q] \in Commas

\* C22, amended: the neighbour counts for the whole run of digit-class
\* characters, ・ and ～ around the digit, taken after the decimal points
\* between digits have become ・. A half- or full-width digit outside the
\* comma groups ends up as the full-width digit when that run stands directly
\* after a full-width Latin letter or directly before a full-width Latin
\* letter or a unit symbol, and as the kanji digit otherwise; a digit of a
\* comma group is returned as written. The length of the text is kept.
C22_RunsBesideUnits ==
    UnitsDone =>
        LET t1 == DecimalFrom(value[1], 1) IN
        /\ Len(text[1]) = Len(value[1])
        /\ \A p \in 1..Len(value[1]) :
              IsDigit(value[1][p]) =>
                  text[1][p] =
                      IF InCommaGroup(t1, p) THEN value[1][p]
                      ELSE IF Beside(t1, RunOf(t1, p, {ch \in UnitTextChars : IsDigitClass(ch)}
                                                      \cup {NAKATEN, Zen("~")}),
                                     ZenLetters, ZenLetters \cup UnitChars)
                      THEN FullWidthOf(value[1][p])
                      ELSE KanjiOf(value[1][p])

\* A body text 1.２㎏ has passed the three statements: both digits are
\* full-width, the first through the ・ that joins it to the second.
C22_Witness ==
    /\ pc[1] = "units_done"
    /\ text_type[1] = "body"
    /\ value[1] = <<"1", ".", Zen("2"), "UNIT_KG">>
    /\ text[1] = <<Zen("1"), NAKATEN, Zen("2"), "UNIT_KG">>

----------------------------------------------------------------------------
(* The runs beside a dash in _convert_horizontal_ellipsis *)

RECURSIVE DashRunsFrom(_, _)
\* The maximal runs of ・, of 。, of 、 and of ． of t from position i on that
\* have a ― directly before or after them, in order: the character and the
\* length of each.
DashRunsFrom(t, i) ==
    IF i > Len(t) THEN <<>>
    ELSE IF t[i] \notin {NAKATEN, KUTEN, TOUTEN, Zen(".")} THEN DashRunsFrom(t, i + 1)
    ELSE LET n == RunLen(t, i, {t[i]})
             beside == \/ i > 1 /\ t[i - 1] = DASH
                       \/ i + n <= Len(t) /\ t[i + n] = DASH
         IN (IF beside THEN <<[char |-> t[i], length |-> n]>> ELSE <<>>)
                \o DashRunsFrom(t, i + n)

DashRuns(t) == DashRunsFrom(t, 1)

\* C23 as the specification states it: a run of 3 or more of one of ・ 。 、 ．
\* with a ― directly before or after it appears in the output of
\* _convert_horizontal_ellipsis with the same characters and the same length.
C23_DashRunsUntouched ==
    pc[1] = "ellipsis_done" =>
        /\ Len(DashRuns(text[1])) = Len(DashRuns(value[1]))
        /\ \A k \in 1..Len(DashRuns(value[1])) :
              DashRuns(value[1])[k].length >= 3 => DashRuns(text[1])[k] = DashRuns(value[1])[k]

\* C23, amended: such a run is left untouched by the four folding passes; in
\* the output of the stage a run of ・ or of ． has the same characters and the
\* same length, and a run of n 。 or 、 has become ceil(n/2) of the same
\* character, through the replaces of 。。 and 、、 that end the stage.
C23_DashRunsHalved ==
    /\ pc[1] = "kuten_pairs" =>
          /\ Len(DashRuns(text[1])) = Len(DashRuns(value[1]))
          /\ \A k \in 1..Len(DashRuns(value[1])) :
                DashRuns(value[1])[k].length >= 3 => DashRuns(text[1])[k] = DashRuns(value[1])[k]
    /\ pc[1] = "ellipsis_done" =>
          /\ Len(DashRuns(text[1])) = Len(DashRuns(value[1]))
          /\ \A k \in 1..Len(DashRuns(value[1])) :
                LET run == DashRuns(value[1])[k] IN
                run.length >= 3 =>
                    DashRuns(text[1])[k] =
                        [char |-> run.char,
                         length |-> IF run.char \in {KUTEN, TOUTEN}
                                    THEN (run.length + 1) \div 2 ELSE run.length]

\* The stage has returned for ―。。。。。あ and for nothing else: the five 。
\* after the dash were not folded, and the replace of 。。 left three.
C23_Witness ==
    /\ pc[1] = "ellipsis_done"
    /\ value[1] = <<DASH, KUTEN, KUTEN, KUTEN, KUTEN, KUTEN, J1>>
    /\ text[1] = <<DASH, KUTEN, KUTEN, KUTEN, J1>>

----------------------------------------------------------------------------
(* _convert_novel_rule on its own, one action per substitution *)

MaxNovelLen == 5        \* characters of a text given to _convert_novel_rule

NovelChars == {KUTEN, RKAGI, RWKAGI, Zen(")"), ZSP, LEADER3, LEADER2, J1}
NovelTexts == UNION {[1..n -> NovelChars] : n \in 0..MaxNovelLen}

InitNovel == \E t \in NovelTexts : Alone("novel_kuten_bracket", t, "body")

\* line 360: re.sub(r'。([」』）])', r'\1', text)
NovelKutenBracket ==
    Assign("novel_kuten_bracket", "novel_leader3", KutenBracketFrom(text[1], 1))

\* line 361: the runs of …
NovelLeader3 == Assign("novel_leader3", "novel_leader2", EvenRunsFrom(text[1], 1, LEADER3))

\* line 362: the runs of ‥
NovelLeader2 == Assign("novel_leader2", "novel_kuten_space", EvenRunsFrom(text[1], 1, LEADER2))

\* lines 363-364: re.sub(r'。　', '。', text), and return
NovelKutenSpace ==
    Assign("novel_kuten_space", "novel_done", Replace(text[1], <<KUTEN, ZSP>>, <<KUTEN>>))

NextNovel == NovelKutenBracket \/ NovelLeader3 \/ NovelLeader2 \/ NovelKutenSpace

SpecNovel == InitNovel /\ [][NextNovel]_vars

\* t without the characters at the positions ps, and t without its … and ‥.
Without(t, ps) ==
    LET kept == {p \in 1..Len(t) : p \notin ps}
        Nth(k) == CHOOSE p \in kept : Cardinality({q \in kept : q < p}) = k - 1
    IN [k \in 1..Cardinality(kept) |-> t[Nth(k)]]
NoLeaders(t) == SelectSeq(t, LAMBDA ch : ch \notin {LEADER3, LEADER2})

\* The positions of t that hold a 。 directly before a character of after.
KutenBefore(t, after) ==
    {p \in 1..Len(t) : t[p] = KUTEN /\ p < Len(t) /\ t[p + 1] \in after}

\* C24 as the specification states it: _convert_novel_rule deletes a 。
\* exactly when a 」, a 』 or a full-width space follows it directly, and the
\* bracket or the space stays; every other 。 and every other character outside
\* the runs of … and ‥ is kept.
C24_KutenDeleted ==
    pc[1] = "novel_done" =>
        NoLeaders(text[1])
            = NoLeaders(Without(value[1], KutenBefore(value[1], {RKAGI, RWKAGI, ZSP})))

\* C24, amended: _convert_novel_rule deletes a 。 exactly when a 」, a 』 or a
\* ） follows it directly, and the bracket stays; where a full-width space
\* follows a 。 directly it deletes the space and keeps the 。; every other
\* character outside the runs of … and ‥ is kept.
C24_KutenOrSpaceDeleted ==
    pc[1] = "novel_done" =>
        NoLeaders(text[1])
            = NoLeaders(Without(value[1],
                  KutenBefore(value[1], {RKAGI, RWKAGI, Zen(")")})
                  \cup {p + 1 : p \in KutenBefore(value[1], {ZSP})}))

\* The stage has returned for 。）。　」: the 。 before ） is gone, and so is the
\* full-width space, whose 。 stayed.
C24_Witness ==
    /\ pc[1] = "novel_done"
    /\ value[1] = <<KUTEN, Zen(")"), KUTEN, ZSP, RKAGI>>
    /\ text[1] = <<Zen(")"), KUTEN, RKAGI>>

RECURSIVE LeaderRunsFrom(_, _)
\* The maximal runs of … and of ‥ of t from position i on, in order: the
\* character and the length of each.
LeaderRunsFrom(t, i) ==
    IF i > Len(t) THEN <<>>
    ELSE IF t[i] \notin {LEADER3, LEADER2} THEN LeaderRunsFrom(t, i + 1)
    ELSE LET n == RunLen(t, i, {t[i]}) IN
         <<[char |-> t[i], length |-> n]>> \o LeaderRunsFrom(t, i + n)

LeaderRuns(t) == LeaderRunsFrom(t, 1)

\* C25: after _convert_novel_rule every maximal run of … and every maximal run
\* of ‥ has even length: a run of odd length has one more character of its
\* kind, a run of even length is as it was.
C25_EvenLeaderRuns ==
    pc[1] = "novel_done" =>
        /\ LeaderRuns(text[1])
              = [k \in 1..Len(LeaderRuns(value[1])) |->
                    LET run == LeaderRuns(value[1])[k] IN
                    [char |-> run.char, length |-> run.length + (run.length % 2)]]
        /\ \A k \in 1..Len(LeaderRuns(text[1])) : LeaderRuns(text[1])[k].length % 2 = 0

\* The stage has returned for …‥‥……: the single … has one more, the two ‥
\* and the two … are as they were.
C25_Witness ==
    /\ pc[1] = "novel_done"
    /\ value[1] = <<LEADER3, LEADER2, LEADER2, LEADER3, LEADER3>>
    /\ text[1] = <<LEADER3, LEADER3, LEADER2, LEADER2, LEADER3, LEADER3>>

----------------------------------------------------------------------------
(* Explicit ruby through the whole conversion: ｜BASE≪READING≫ and <ruby> *)

MaxReadingRun == 3      \* characters of a reading of one repeated mark

\* Readings: ordinary characters, and runs of one mark.
ReadingMarks == {LEADER3, LEADER2, KUTEN, Zen("."), TOUTEN, ",", "-", NAKATEN}
OrdinaryReadings == {<<J2>>, <<J2, J1>>}
SpanReadings ==
    OrdinaryReadings \cup {<<DASH, KUTEN>>}
    \cup {Repeat(<<m>>, n) : m \in ReadingMarks, n \in 1..MaxReadingRun}

ExplicitSpan(base, reading) == <<Zen("|")>> \o base \o <<LDANGLE>> \o reading \o <<RDANGLE>>
RubySpan(base, reading) == <<Zen("|")>> \o base \o <<LRUBY>> \o reading \o <<RRUBY>>
RubyElement(base, reading) ==
    RubyOpen \o base \o RubyRt \o reading \o <<"<", "/", "r", "t", ">">> \o RubyClose

\* The fragments converted: a span written out, alone or after a character,
\* the same span with 《》 for its brackets, and a ruby element.
RubyInputs ==
    {ExplicitSpan(<<J1>>, r) : r \in SpanReadings}
    \cup {<<J2>> \o ExplicitSpan(<<J1>>, r) : r \in SpanReadings}
    \cup {RubySpan(<<J1>>, r) : r \in SpanReadings}
    \cup {RubyElement(<<J1>>, r) : r \in OrdinaryReadings}

InitRuby ==
    /\ OutsideIdle
    /\ pc = [c \in Calls |-> IF c = 1 THEN "call" ELSE "idle"]
    /\ \E v \in RubyInputs, k \in Kinds :
          /\ value = [c \in Calls |-> IF c = 1 THEN v ELSE <<>>]
          /\ text_type = [c \in Calls |-> k]
    /\ earlier = [c \in Calls |-> NoEarlier]
    /\ Fresh

SpecRuby == InitRuby /\ [][Next]_vars

\* The readings the statement has rejected: those of … ‥ 。 ． 、 , - only, and
\* the runs of three or more of ・ 。 、 ．.
PunctuationOnly(reading) ==
    \/ Range(reading) \subseteq {LEADER3, LEADER2, KUTEN, Zen("."), TOUTEN, ",", "-"}
    \/ /\ Len(reading) >= 3
       /\ \E m \in {NAKATEN, KUTEN, TOUTEN, Zen(".")} : Range(reading) = {m}

\* The span is in the text as literal characters: no ruby bracket, the bar
\* and both double angle brackets as external-glyph annotations.
LeftLiteral(out, base) ==
    /\ LRUBY \notin Range(out) /\ RRUBY \notin Range(out)
    /\ Zen("|") \notin Range(out)
    /\ StartsWithAt(out, 1, TatesenGaiji \o base \o OpenDangleGaiji)
    /\ StartsWithAt(out, Len(out) - Len(CloseDangleGaiji) + 1, CloseDangleGaiji)

\* C26: explicit ruby in pipeline order: the span ｜BASE≪READING≫ of the
\* fragment is returned as ｜BASE《READING》 unless READING consists solely of
\* … ‥ 。 ． 、 , - or is a run of three or more ・ 。 、 ．, and then it is
\* returned as literal text with ≪ ≫ as external-glyph annotations; the ruby
\* of a <ruby> element is returned as ｜BASE《READING》.
C26_RubyInPipelineOrder ==
    /\ \A r \in SpanReadings :
           (pc[1] = "done" /\ value[1] = ExplicitSpan(<<J1>>, r))
           => /\ Len(returned[1]) = 1
              /\ IF PunctuationOnly(r) THEN LeftLiteral(returned[1][1], <<J1>>)
                 ELSE returned[1][1] = RubySpan(<<J1>>, r)
    /\ \A r \in OrdinaryReadings :
           (pc[1] = "done" /\ value[1] = RubyElement(<<J1>>, r))
           => returned[1] = << RubySpan(<<J1>>, r) >>

\* The reading , reached _restore_explicit_ruby as ， and the span was
\* returned as ruby.
C26_CommaReadingRestored ==
    /\ pc[1] = "done"
    /\ value[1] = ExplicitSpan(<<J1>>, <<",">>)
    /\ "_restore_explicit_ruby" \in ran[1]
    /\ returned[1] = << RubySpan(<<J1>>, <<Zen(",")>>) >>

----------------------------------------------------------------------------
(* _half_indent_bracket on its own *)

MaxIndentPieces == 5    \* pieces of a text given to _half_indent_bracket

IndentPieces ==
    {<<SP>>, <<ZSP>>, <<TAB>>, <<NL>>, <<LKAGI>>, <<J1>>, OpenDangleGaiji}
IndentTexts ==
    {Flatten(ps) : ps \in UNION {[1..n -> IndentPieces] : n \in 0..MaxIndentPieces}}

InitHalfIndent == \E t \in IndentTexts : Alone("half_indent", t, "body")

\* lines 272-273: return pattern.sub(...)
HalfIndentSub == Assign("half_indent", "half_indent_done", _half_indent_bracket(text[1]))

NextHalfIndent == HalfIndentSub

SpecHalfIndent == InitHalfIndent /\ [][NextHalfIndent]_vars

\* The leading spaces, tabs and full-width spaces of a line, and the rest.
Indent(line) == SubSeq(line, 1, RunLen(line, 1, {SP, ZSP, TAB}))
AfterIndent(line) == SubSeq(line, Len(Indent(line)) + 1, Len(line))

\* The line begins, after its indent, with an opening bracket or with
\* ※［＃始め二重山括弧］.
BracketLine(line) ==
    LET rest == AfterIndent(line) IN
    rest # <<>> /\ (rest[1] \in OpenBrackets \/ StartsWithAt(rest, 1, OpenDangleGaiji))

\* The lines of the input and of the output of the stage.
IndentIn == SplitLines(value[1])
IndentOut == SplitLines(text[1])

\* C27 as the specification states it: _half_indent_bracket only inserts: on
\* every line that begins, after its leading spaces, tabs and full-width
\* spaces, with an opening bracket or with ※［＃始め二重山括弧］, ［＃二分アキ］
\* stands immediately before the bracket and the rest of the line, its
\* leading whitespace included, is as it was; every other line is unchanged.
C27_OnlyInserts ==
    pc[1] = "half_indent_done" =>
        /\ Len(IndentOut) = Len(IndentIn)
        /\ \A i \in 1..Len(IndentIn) :
              IndentOut[i] = IF BracketLine(IndentIn[i])
                             THEN Indent(IndentIn[i]) \o HalfIndent \o AfterIndent(IndentIn[i])
                             ELSE IndentIn[i]

\* C27, amended: on every line that begins, after its leading spaces, tabs
\* and full-width spaces, with an opening bracket or with ※［＃始め二重山括弧］,
\* _half_indent_bracket puts ［＃二分アキ］ in the place of that leading
\* whitespace, immediately before the bracket; the rest of such a line and
\* every other line are unchanged.
C27_IndentReplaced ==
    pc[1] = "half_indent_done" =>
        /\ Len(IndentOut) = Len(IndentIn)
        /\ \A i \in 1..Len(IndentIn) :
              IndentOut[i] = IF BracketLine(IndentIn[i])
                             THEN HalfIndent \o AfterIndent(IndentIn[i])
                             ELSE IndentIn[i]

\* The stage has returned for 　「 / あ「: the first line lost its full-width
\* space to the annotation, the second is as it was.
C27_Witness ==
    /\ pc[1] = "half_indent_done"
    /\ value[1] = <<ZSP, LKAGI, NL, J1, LKAGI>>
    /\ text[1] = HalfIndent \o <<LKAGI, NL, J1, LKAGI>>

----------------------------------------------------------------------------
(* _replace_tatesen on its own, one action per statement *)

MaxTatesenPieces == 5   \* pieces of a text given to _replace_tatesen

TatesenPieces == {<<Zen("|")>>, <<LRUBY>>, <<RRUBY>>, <<J1>>, <<NL>>, RubyBar}
TatesenTexts ==
    {Flatten(ps) : ps \in UNION {[1..n -> TatesenPieces] : n \in 0..MaxTatesenPieces}}

InitTatesen == \E t \in TatesenTexts : Alone("tatesen_shield", t, "body")

\* line 385: the ruby spans get the marker for their bar
TatesenShield == Assign("tatesen_shield", "tatesen_replace", ShieldRubyFrom(text[1], 1))

\* line 386: text.replace('｜', '※［＃縦線］')
TatesenReplace ==
    Assign("tatesen_replace", "tatesen_unshield", Replace(text[1], <<Zen("|")>>, TatesenGaiji))

\* line 387: return text.replace('［＃ルビ用縦線］', '｜')
TatesenUnshield ==
    Assign("tatesen_unshield", "tatesen_done", Replace(text[1], RubyBar, <<Zen("|")>>))

NextTatesen == TatesenShield \/ TatesenReplace \/ TatesenUnshield

SpecTatesen == InitTatesen /\ [][NextTatesen]_vars

\* The first position from i on that holds a character of stop (Len(t) + 1: none).
RECURSIVE FirstOf(_, _, _)
FirstOf(t, i, stop) ==
    IF i > Len(t) \/ t[i] \in stop THEN i ELSE FirstOf(t, i + 1, stop)

\* A ruby span ｜BASE《READING》 begins at p: the base is not empty and holds
\* no ｜ 《 》 or newline, the reading is not empty and holds no 《 》 or newline
\* and none of inReading.
SpanAt(t, p, inReading) ==
    LET a == FirstOf(t, p + 1, {Zen("|"), LRUBY, RRUBY, NL})
        b == FirstOf(t, a + 1, {LRUBY, RRUBY, NL} \cup inReading)
    IN /\ p <= Len(t) /\ t[p] = Zen("|")
       /\ a > p + 1 /\ a <= Len(t) /\ t[a] = LRUBY
       /\ b > a + 1 /\ b <= Len(t) /\ t[b] = RRUBY
Spans(t, inReading) == {p \in 1..Len(t) : SpanAt(t, p, inReading)}
SpanText(t, p) == SubSeq(t, p, FirstOf(t, p, {RRUBY}))

\* The places of a text where piece begins.
PlacesOf(t, piece) == {p \in 1..Len(t) : StartsWithAt(t, p, piece)}

TatesenOut == text[1]

\* C28 as the specification states it: after _replace_tatesen every ｜ is the
\* bar of a ruby span ｜BASE《READING》 that the input held (base and reading
\* without ｜ 《 》 newline); every other ｜ of the input has become ※［＃縦線］;
\* the number of ruby spans is unchanged; no ［＃ルビ用縦線］ remains.
C28_OnlyRubyBars ==
    pc[1] = "tatesen_done" =>
        /\ \A q \in PlacesOf(TatesenOut, <<Zen("|")>>) :
              /\ SpanAt(TatesenOut, q, {Zen("|")})
              /\ \E p \in Spans(value[1], {Zen("|")}) :
                    SpanText(value[1], p) = SpanText(TatesenOut, q)
        /\ Cardinality(PlacesOf(TatesenOut, TatesenGaiji))
              = Cardinality(PlacesOf(value[1], <<Zen("|")>>) \ Spans(value[1], {Zen("|")}))
        /\ Cardinality(Spans(TatesenOut, {Zen("|")})) = Cardinality(Spans(value[1], {Zen("|")}))
        /\ PlacesOf(TatesenOut, RubyBar) = {}

RECURSIVE TatesenFrom(_, _)
\* The input from i on with the bar of every ruby span kept, every other ｜
\* as ※［＃縦線］ and every ［＃ルビ用縦線］ as ｜.
TatesenFrom(t, i) ==
    IF i > Len(t) THEN <<>>
    ELSE IF StartsWithAt(t, i, RubyBar) THEN <<Zen("|")>> \o TatesenFrom(t, i + Len(RubyBar))
    ELSE IF t[i] = Zen("|") /\ ~SpanAt(t, i, {}) THEN TatesenGaiji \o TatesenFrom(t, i + 1)
    ELSE <<t[i]>> \o TatesenFrom(t, i + 1)

\* C28, amended: the reading of a ruby span may hold ｜.  After
\* _replace_tatesen the text is the input with the bar of every ruby span
\* kept, every other ｜, those inside a reading included, as ※［＃縦線］, and
\* every ［＃ルビ用縦線］ the input itself held as ｜: so every ｜ is the bar of a
\* ruby span of the input or stands for such a marker; when the input holds
\* no marker, every ｜ begins a ruby span and the number of ruby spans is
\* unchanged; no ［＃ルビ用縦線］ remains.
C28_RubyBarsAndMarkers ==
    pc[1] = "tatesen_done" =>
        /\ TatesenOut = TatesenFrom(value[1], 1)
        /\ PlacesOf(value[1], RubyBar) = {}
              => /\ PlacesOf(TatesenOut, <<Zen("|")>>) = Spans(TatesenOut, {})
                 /\ Cardinality(Spans(TatesenOut, {})) = Cardinality(Spans(value[1], {}))
        /\ PlacesOf(TatesenOut, RubyBar) = {}

\* The stage has returned for ｜あ《｜》: the first bar is the bar of the
\* span, the one in the reading is an annotation.
C28_Witness ==
    /\ pc[1] = "tatesen_done"
    /\ value[1] = <<Zen("|"), J1, LRUBY, Zen("|"), RRUBY>>
    /\ TatesenOut = <<Zen("|"), J1, LRUBY>> \o TatesenGaiji \o <<RRUBY>>

----------------------------------------------------------------------------
(* _auto_join_line on its own *)

MaxJoinPieces == 5      \* pieces of a text given to _auto_join_line

JoinPieces ==
    {<<J1, TOUTEN, NL>>, <<J1>>, <<TOUTEN>>, <<NL>>, <<ZSP>>, <<"1">>, <<Zen("1")>>, <<"K2">>}
JoinTexts ==
    {Flatten(ps) : ps \in UNION {[1..n -> JoinPieces] : n \in 0..MaxJoinPieces}}

InitAutoJoin == \E t \in JoinTexts : Alone("auto_join", t, "body")

\* lines 391-395: return re.sub(...)
AutoJoinSub == Assign("auto_join", "auto_join_done", _auto_join_line(text[1]))

NextAutoJoin == AutoJoinSub

SpecAutoJoin == InitAutoJoin /\ [][NextAutoJoin]_vars

\* What may not begin a joined continuation, as the specification has it: a
\* quote or bracket opener, a list marker, an ellipsis or dash, a further
\* full-width space, a digit.
OpenersAndMarkers ==
    {LKAGI, LWKAGI, "(", Zen("("), LSUMI, "<", Zen("<"), LANGLE, LRUBY, LDANGLE,
     NAKATEN, "SQ_B", LEADER3, LEADER2, DASH, ZSP}
AnyDigit == Range(HankakuNum) \cup {Zen(HankakuNum[d]) : d \in 1..10} \cup KanjiDigits

\* The text is one line that ends in 、, one or more empty lines, and one
\* more line, which is not empty.
JoinLinesIn == SplitLines(value[1])
JoinCase ==
    /\ Len(JoinLinesIn) >= 3
    /\ JoinLinesIn[1] # <<>> /\ JoinLinesIn[1][Len(JoinLinesIn[1])] = TOUTEN
    /\ \A i \in 2..(Len(JoinLinesIn) - 1) : JoinLinesIn[i] = <<>>
    /\ JoinLinesIn[Len(JoinLinesIn)] # <<>>
Continuation == JoinLinesIn[Len(JoinLinesIn)]

\* C29: _auto_join_line joins a line that ends in 、 with the continuation
\* line that follows one or more blank lines and begins with one full-width
\* space, dropping the line break, the blank lines and the indent, unless an
\* opener, a list marker, an ellipsis or dash, a further full-width space or
\* a digit follows the indent; where one of these follows it, or the
\* continuation does not begin with a full-width space, the text is unchanged.
C29_JoinedUnlessMarked ==
    (pc[1] = "auto_join_done" /\ JoinCase) =>
        IF Continuation[1] # ZSP THEN text[1] = value[1]
        ELSE IF Len(Continuation) = 1 THEN TRUE
        ELSE IF Continuation[2] \in OpenersAndMarkers \cup AnyDigit THEN text[1] = value[1]
        ELSE text[1] = JoinLinesIn[1] \o Tail(Continuation)

\* The stage has returned for あ、 / (empty line) / 　1: the continuation
\* begins with a digit after its indent, and the lines were joined.
C29_DigitJoined ==
    /\ pc[1] = "auto_join_done"
    /\ value[1] = <<J1, TOUTEN, NL, NL, ZSP, "1">>
    /\ text[1] = <<J1, TOUTEN, "1">>

----------------------------------------------------------------------------
(* Raw newlines and <br> in _html_to_aozora *)

MaxBreakPieces == 4     \* pieces of a fragment with line breaks

BrOpen == <<"<", "b", "r">>
BreakPieces ==
    {<<J1>>, <<NL>>, <<CR>>, BrOpen, <<">">>, <<"<", "B", "R", SP, "/", ">">>}
BreakInputs ==
    {Flatten(ps) : ps \in UNION {[1..n -> BreakPieces] : n \in 0..MaxBreakPieces}}

InitBreaks == \E v \in BreakInputs, k \in {"body", "story"} : Alone("html_call", v, k)

SpecBreaks == InitBreaks /\ [][NextHtml]_vars

\* The raw newlines of a text, in order, and the text without them.
RawNewlines(t) == SelectSeq(t, LAMBDA ch : ch \in {CR, NL})
NoRawNewlines(t) == SelectSeq(t, LAMBDA ch : ch \notin {CR, NL})

RECURSIVE BrTagsFrom(_, _)
\* The <br ...> tags of a text without newlines from i on: where each
\* begins and ends (<br in any letter case, up to the first > after it).
BrTagsFrom(t, i) ==
    IF i > Len(t) THEN <<>>
    ELSE LET end == FirstIn(t, i + 3, {">"}) IN
         IF StartsWithAtCI(t, i, BrOpen) /\ end # 0
         THEN <<[from |-> i, to |-> end]>> \o BrTagsFrom(t, end + 1)
         ELSE BrTagsFrom(t, i + 1)

\* t without the characters of its <br ...> tags.
OutsideBrTags(t) ==
    LET tags == BrTagsFrom(t, 1)
        inTag(p) == \E n \in 1..Len(tags) : tags[n].from <= p /\ p <= tags[n].to
    IN Without(t, {p \in 1..Len(t) : inTag(p)})

\* By how much the first n tags shorten the text when each becomes one
\* character, and the place of the n-th newline of a text.
RECURSIVE Shortened(_, _)
Shortened(tags, n) ==
    IF n = 0 THEN 0 ELSE Shortened(tags, n - 1) + (tags[n].to - tags[n].from)
NthNewline(t, n) ==
    CHOOSE p \in 1..Len(t) :
        t[p] = NL /\ Cardinality({q \in 1..(p - 1) : t[q] = NL}) = n - 1

\* The fragment is taken as preformatted text.
PreHtmlCase ==
    text_type[1] = "story" /\ "<" \notin Range(value[1]) /\ ">" \notin Range(value[1])

\* C30: raw newlines are kept only in the pre-HTML case.  For a story
\* fragment without < and > the text after lines 20-22 is the fragment, and
\* the normalizer returns it with every raw newline in its place.  In every
\* other case the text after lines 20-22 holds no raw newline of the
\* fragment: it is the fragment without its CR and LF, with one newline in
\* the place of each <br ...> tag, whatever its attributes and letter case;
\* and the normalizer returns what it returns for the fragment without its
\* raw newlines.
C30_RawNewlinesOnlyPreHtml ==
    /\ pc[1] = "html_end_p" =>
          IF PreHtmlCase THEN text[1] = value[1]
          ELSE /\ CR \notin Range(text[1])
               /\ Len(RawNewlines(text[1])) = Len(BrTagsFrom(NoRawNewlines(value[1]), 1))
               /\ NoRawNewlines(text[1]) = OutsideBrTags(NoRawNewlines(value[1]))
               /\ \A n \in 1..Len(BrTagsFrom(NoRawNewlines(value[1]), 1)) :
                     NthNewline(text[1], n)
                        = BrTagsFrom(NoRawNewlines(value[1]), 1)[n].from
                             - Shortened(BrTagsFrom(NoRawNewlines(value[1]), 1), n - 1)
    /\ (pc[1] = "html_done" /\ value[1] # <<>>) =>
          IF PreHtmlCase THEN returned[1] = <<value[1]>>
          ELSE returned[1] = <<_html_to_aozora(NoRawNewlines(value[1]), FALSE)>>

\* The normalizer has made its line breaks for a body fragment of a raw
\* newline, <BR />, あ and a CR: the text is one newline and あ.
C30_Witness ==
    /\ pc[1] = "html_end_p"
    /\ text_type[1] = "body"
    /\ value[1] = <<NL, "<", "B", "R", SP, "/", ">", J1, CR>>
    /\ text[1] = <<NL, J1>>

====
